---------------------------- MODULE Spec2Model ----------------------------
(***************************************************************************)
(* Miniscript AST of script_descriptor (src/src/parse.rs): serializer,     *)
(* lexer, reverse parser, satisfier and descriptor compiler, written as    *)
(* operators over finite data, and small state machines that apply them.   *)
(***************************************************************************)
EXTENDS Integers, Sequences, FiniteSets, TLC

VARIABLES tree, script, parsed, reser, env, sat, rkeys, desc, comp, tokens, lexed, pc

vars == <<tree, script, parsed, reser, env, sat, rkeys, desc, comp, tokens, lexed, pc>>

(***************************************************************************)
(* Bounds of the model.                                                    *)
(***************************************************************************)
NKeys == 3
MaxDepth == 3

Keys == 1..NKeys
Hashes160 == {1}
Sha256s == {1}

(***************************************************************************)
(* Generic sequence helpers.                                               *)
(***************************************************************************)
Last(s) == s[Len(s)]
Front(s) == SubSeq(s, 1, Len(s) - 1)
Reverse(s) == [i \in 1..Len(s) |-> s[Len(s) + 1 - i]]

RECURSIVE Flatten(_)
Flatten(ss) == IF ss = <<>> THEN <<>> ELSE Head(ss) \o Flatten(Tail(ss))

RECURSIVE SumSeq(_)
SumSeq(s) == IF s = <<>> THEN 0 ELSE Head(s) + SumSeq(Tail(s))

(***************************************************************************)
(* AST nodes.  ty is the enum (E, W, F, V, T), op the variant, n the       *)
(* number the variant carries (k, a CSV value, a key or a hash), ks the    *)
(* key list of a multisig and subs the children in declaration order.      *)
(***************************************************************************)
Node(ty, op, n, ks, subs) == [ty |-> ty, op |-> op, n |-> n, ks |-> ks, subs |-> subs]
NoNode == Node("", "", 0, <<>>, <<>>)

Leaf(ty, op, n) == Node(ty, op, n, <<>>, <<>>)
Multi(ty, op, k, ks) == Node(ty, op, k, ks, <<>>)
Unary(ty, op, a) == Node(ty, op, 0, <<>>, <<a>>)
Binary(ty, op, l, r) == Node(ty, op, 0, <<>>, <<l, r>>)
Thresh(ty, k, e, ws) == Node(ty, "Threshold", k, <<>>, <<e>> \o ws)

is_e(x) == x.ty = "E"
is_w(x) == x.ty = "W"
is_f(x) == x.ty = "F"
is_v(x) == x.ty = "V"
is_t_any(x) == x.ty \in {"E", "W", "F", "T"}
is_t(x) == x.ty \in {"E", "F", "T"}

into_t(x) == IF x.ty = "E" THEN Unary("T", "CastE", x)
             ELSE IF x.ty = "F" THEN Unary("T", "CastF", x)
             ELSE x

\* Whether into_e .. into_t of the node returns Ok: the trait's default is Err,
\* and each enum overrides its own conversion, E and F also into_t.
into_ok(x, ty) ==
    CASE ty = "E" -> x.ty = "E"
      [] ty = "W" -> x.ty = "W"
      [] ty = "F" -> x.ty = "F"
      [] ty = "V" -> x.ty = "V"
      [] ty = "T" -> x.ty \in {"E", "F", "T"}

\* is_fn!
is_fn(x, ty) ==
    CASE ty = "E" -> is_e(x)
      [] ty = "W" -> is_w(x)
      [] ty = "F" -> is_f(x)
      [] ty = "V" -> is_v(x)
      [] ty = "T" -> is_t(x)

(***************************************************************************)
(* Script instructions as the instruction iterator of the script library   *)
(* yields them: an opcode, or a data push with its bytes.                  *)
(***************************************************************************)
Ins(k, name, v, data) == [k |-> k, name |-> name, v |-> v, data |-> data]
Op(name) == Ins("op", name, 0, <<>>)
PushNum(n) == Ins("op", "OP_PUSHNUM", n, <<>>)
Push(bytes) == Ins("push", "", 0, bytes)

H160Bytes(h) == [i \in 1..20 |-> IF i = 1 THEN h ELSE 0]
Sha256Bytes(h) == [i \in 1..32 |-> IF i = 1 THEN h ELSE 0]
PkBytes(pk) == [i \in 1..33 |-> IF i = 1 THEN 2 ELSE IF i = 33 THEN pk ELSE 0]
PkFromSliceOk(b) == b[1] \in {2, 3} /\ b[33] # 0
PkFromSlice(b) == b[33]

RECURSIVE LeBytes(_)
LeBytes(abs) ==
    IF abs > 255 THEN <<abs % 256>> \o LeBytes(abs \div 256)
    ELSE IF abs >= 128 THEN <<abs, 0>>
    ELSE <<abs>>

build_scriptint(n) == IF n = 0 THEN <<>> ELSE LeBytes(n)

RECURSIVE LeValue(_)
LeValue(b) == IF b = <<>> THEN 0 ELSE Head(b) + 256 * LeValue(Tail(b))

RECURSIVE Pow256(_)
Pow256(i) == IF i = 0 THEN 1 ELSE 256 * Pow256(i - 1)

\* script::read_scriptint: at most 4 bytes, little endian, sign in the top bit.
read_scriptint(b) ==
    IF Len(b) = 0 THEN [ok |-> TRUE, v |-> 0]
    ELSE IF Len(b) > 4 THEN [ok |-> FALSE, v |-> 0]
    ELSE IF Last(b) >= 128
         THEN [ok |-> TRUE,
               v |-> 0 - (LeValue(Front(b)) + Pow256(Len(b) - 1) * (Last(b) - 128))]
         ELSE [ok |-> TRUE, v |-> LeValue(b)]

\* Builder::push_int for the non-negative values the AST holds.
push_int(n) ==
    IF n >= 1 /\ n <= 16 THEN PushNum(n)
    ELSE IF n = 0 THEN Push(<<>>)
    ELSE Push(build_scriptint(n))

\* The bytes of Builder::new().push_int(v).into_script() after the first one.
push_int_tail(v) == IF v >= 0 /\ v <= 16 THEN <<>> ELSE build_scriptint(v)

(***************************************************************************)
(* Tokens.  v is the number of a Number, the key of a Pubkey, the hash of  *)
(* a Hash160Hash or Sha256Hash, and 0 for an opcode.                       *)
(***************************************************************************)
Tok(t, v) == [t |-> t, v |-> v]
TOp(t) == Tok(t, 0)
Number(n) == Tok("Number", n)

OpTokens == {"BoolAnd", "BoolOr", "Add", "Equal", "EqualVerify", "CheckSig",
             "CheckSigVerify", "CheckMultiSig", "CheckMultiSigVerify",
             "CheckSequenceVerify", "FromAltStack", "ToAltStack", "Drop", "Dup",
             "If", "IfDup", "NotIf", "Else", "EndIf", "Size", "Swap", "Tuck",
             "Verify", "Hash160", "Sha256"}

OpcodeOf(t) ==
    CASE t = "BoolAnd" -> "OP_BOOLAND"
      [] t = "BoolOr" -> "OP_BOOLOR"
      [] t = "Add" -> "OP_ADD"
      [] t = "Equal" -> "OP_EQUAL"
      [] t = "EqualVerify" -> "OP_EQUALVERIFY"
      [] t = "CheckSig" -> "OP_CHECKSIG"
      [] t = "CheckSigVerify" -> "OP_CHECKSIGVERIFY"
      [] t = "CheckMultiSig" -> "OP_CHECKMULTISIG"
      [] t = "CheckMultiSigVerify" -> "OP_CHECKMULTISIGVERIFY"
      [] t = "CheckSequenceVerify" -> "OP_CSV"
      [] t = "FromAltStack" -> "OP_FROMALTSTACK"
      [] t = "ToAltStack" -> "OP_TOALTSTACK"
      [] t = "Drop" -> "OP_DROP"
      [] t = "Dup" -> "OP_DUP"
      [] t = "If" -> "OP_IF"
      [] t = "IfDup" -> "OP_IFDUP"
      [] t = "NotIf" -> "OP_NOTIF"
      [] t = "Else" -> "OP_ELSE"
      [] t = "EndIf" -> "OP_ENDIF"
      [] t = "Size" -> "OP_SIZE"
      [] t = "Swap" -> "OP_SWAP"
      [] t = "Tuck" -> "OP_TUCK"
      [] t = "Verify" -> "OP_VERIFY"
      [] t = "Hash160" -> "OP_HASH160"
      [] t = "Sha256" -> "OP_SHA256"

\* Token::serialize
TokenSerialize(tok) ==
    CASE tok.t = "Number" -> push_int(tok.v)
      [] tok.t = "Hash160Hash" -> Push(H160Bytes(tok.v))
      [] tok.t = "Sha256Hash" -> Push(Sha256Bytes(tok.v))
      [] tok.t = "Pubkey" -> Push(PkBytes(tok.v))
      [] OTHER -> Op(OpcodeOf(tok.t))

\* The opcodes lex maps to a token (OP_ADD is not among its match arms).
LexOpcodes ==
    [OP_BOOLAND |-> "BoolAnd", OP_BOOLOR |-> "BoolOr", OP_EQUAL |-> "Equal",
     OP_EQUALVERIFY |-> "EqualVerify", OP_CHECKSIG |-> "CheckSig",
     OP_CHECKSIGVERIFY |-> "CheckSigVerify", OP_CHECKMULTISIG |-> "CheckMultiSig",
     OP_CHECKMULTISIGVERIFY |-> "CheckMultiSigVerify",
     OP_CSV |-> "CheckSequenceVerify", OP_FROMALTSTACK |-> "FromAltStack",
     OP_TOALTSTACK |-> "ToAltStack", OP_DROP |-> "Drop", OP_DUP |-> "Dup",
     OP_IF |-> "If", OP_IFDUP |-> "IfDup", OP_NOTIF |-> "NotIf", OP_ELSE |-> "Else",
     OP_ENDIF |-> "EndIf", OP_SIZE |-> "Size", OP_SWAP |-> "Swap", OP_TUCK |-> "Tuck",
     OP_VERIFY |-> "Verify", OP_HASH160 |-> "Hash160", OP_SHA256 |-> "Sha256"]

LexErr(e) == [ok |-> FALSE, tok |-> TOp(""), err |-> e]
LexOk(tok) == [ok |-> TRUE, tok |-> tok, err |-> ""]

\* LexIns without the comparison of a pushed number with its minimal encoding.
LexIns_unchecked(ins) ==
    IF ins.k = "op"
    THEN IF ins.name \in DOMAIN LexOpcodes THEN LexOk(TOp(LexOpcodes[ins.name]))
         ELSE IF ins.name = "OP_PUSHNUM" THEN LexOk(Number(ins.v))
         ELSE LexErr("InvalidOpcode")
    ELSE LET bytes == ins.data IN
         IF Len(bytes) = 20 THEN LexOk(Tok("Hash160Hash", bytes[1]))
         ELSE IF Len(bytes) = 32 THEN LexOk(Tok("Sha256Hash", bytes[1]))
         ELSE IF Len(bytes) = 33
              THEN IF PkFromSliceOk(bytes) THEN LexOk(Tok("Pubkey", PkFromSlice(bytes)))
                   ELSE LexErr("BadPubkey")
         ELSE LET r == read_scriptint(bytes) IN
              IF ~r.ok THEN LexErr("Script")
              ELSE IF r.v >= 0 THEN LexOk(Number(r.v))
                   ELSE LexErr("InvalidPush")

\* One iteration of the loop of lex.
LexIns(ins) ==
    IF ins.k = "op"
    THEN IF ins.name \in DOMAIN LexOpcodes THEN LexOk(TOp(LexOpcodes[ins.name]))
         ELSE IF ins.name = "OP_PUSHNUM" THEN LexOk(Number(ins.v))
         ELSE LexErr("InvalidOpcode")
    ELSE LET bytes == ins.data IN
         IF Len(bytes) = 20 THEN LexOk(Tok("Hash160Hash", bytes[1]))
         ELSE IF Len(bytes) = 32 THEN LexOk(Tok("Sha256Hash", bytes[1]))
         ELSE IF Len(bytes) = 33
              THEN IF PkFromSliceOk(bytes) THEN LexOk(Tok("Pubkey", PkFromSlice(bytes)))
                   ELSE LexErr("BadPubkey")
         ELSE LET r == read_scriptint(bytes) IN
              IF ~r.ok THEN LexErr("Script")
              ELSE IF r.v >= 0
                   THEN IF push_int_tail(r.v) # bytes THEN LexErr("InvalidPush")
                        ELSE LexOk(Number(r.v))
                   ELSE LexErr("InvalidPush")

\* lex: the tokens of a script, or the first error met scanning left to right.
RECURSIVE lex(_)
lex(scr) ==
    IF scr = <<>> THEN [ok |-> TRUE, toks |-> <<>>, err |-> ""]
    ELSE LET h == LexIns(Head(scr)) IN
         IF ~h.ok THEN [ok |-> FALSE, toks |-> <<>>, err |-> h.err]
         ELSE LET r == lex(Tail(scr)) IN
              IF ~r.ok THEN r
              ELSE [ok |-> TRUE, toks |-> <<h.tok>> \o r.toks, err |-> ""]

(***************************************************************************)
(* Serializers of the five AST types.                                      *)
(***************************************************************************)
PushKeys_reversed(ks) == [i \in 1..Len(ks) |-> Push(PkBytes(ks[Len(ks) + 1 - i]))]
PushKeys(ks) == [i \in 1..Len(ks) |-> Push(PkBytes(ks[i]))]

SizeIf == <<Op("OP_SIZE"), Op("OP_IF")>>
SizeEqualVerifyIf == <<Op("OP_SIZE"), Op("OP_EQUALVERIFY"), Op("OP_IF")>>
DupHash160(h) == <<Op("OP_DUP"), Op("OP_HASH160"), Push(H160Bytes(h)), Op("OP_EQUALVERIFY")>>
MultiBody(x) == <<push_int(x.n)>> \o PushKeys(x.ks) \o <<push_int(Len(x.ks))>>

RECURSIVE E_serialize(_), W_serialize(_), F_serialize(_), V_serialize(_), T_serialize(_)

\* The `<E> <W> ADD ... <W> ADD` prefix shared by the three Threshold variants.
RECURSIVE WsAdd(_)
WsAdd(ws) == IF ws = <<>> THEN <<>>
             ELSE W_serialize(Head(ws)) \o <<Op("OP_ADD")>> \o WsAdd(Tail(ws))

ThreshBody(x) == E_serialize(x.subs[1]) \o WsAdd(Tail(x.subs)) \o <<push_int(x.n)>>

E_serialize(x) ==
    CASE x.op = "CheckSig" -> <<Push(PkBytes(x.n)), Op("OP_CHECKSIG")>>
      [] x.op = "CheckSigHash" -> DupHash160(x.n) \o <<Op("OP_CHECKSIG")>>
      [] x.op = "CheckSigHashF" ->
            SizeIf \o DupHash160(x.n)
            \o <<Op("OP_CHECKSIGVERIFY"), push_int(1), Op("OP_ENDIF")>>
      [] x.op = "CheckMultiSig" -> MultiBody(x) \o <<Op("OP_CHECKMULTISIG")>>
      [] x.op = "CheckMultiSigF" ->
            SizeIf \o MultiBody(x)
            \o <<Op("OP_CHECKMULTISIGVERIFY"), push_int(1), Op("OP_ENDIF")>>
      [] x.op = "HashEqual" ->
            SizeIf \o <<Op("OP_SIZE"), push_int(32), Op("OP_EQUALVERIFY"), Op("OP_SHA256"),
                        Push(Sha256Bytes(x.n)), Op("OP_EQUALVERIFY"), push_int(1),
                        Op("OP_ENDIF")>>
      [] x.op = "Threshold" -> ThreshBody(x) \o <<Op("OP_EQUAL")>>
      [] x.op = "ParallelAnd" ->
            E_serialize(x.subs[1]) \o W_serialize(x.subs[2]) \o <<Op("OP_BOOLAND")>>
      [] x.op = "CascadeAnd" ->
            E_serialize(x.subs[1]) \o <<Op("OP_IF")>> \o F_serialize(x.subs[2])
            \o <<Op("OP_ELSE"), push_int(0), Op("OP_ENDIF")>>
      [] x.op = "CascadeOr" ->
            E_serialize(x.subs[1]) \o <<Op("OP_IFDUP"), Op("OP_NOTIF")>>
            \o E_serialize(x.subs[2]) \o <<Op("OP_ENDIF")>>
      [] x.op = "ParallelOr" ->
            E_serialize(x.subs[1]) \o W_serialize(x.subs[2]) \o <<Op("OP_BOOLOR")>>
      [] x.op = "CastF" ->
            SizeEqualVerifyIf \o F_serialize(x.subs[1])
            \o <<Op("OP_ELSE"), push_int(0), Op("OP_ENDIF")>>

W_serialize(x) ==
    CASE x.op = "CheckSig" -> <<Op("OP_SWAP"), Push(PkBytes(x.n)), Op("OP_CHECKSIG")>>
      [] x.op = "HashEqual" ->
            <<Op("OP_SWAP")>> \o SizeIf
            \o <<Op("OP_SIZE"), push_int(32), Op("OP_EQUALVERIFY"), Op("OP_SHA256"),
                 Push(Sha256Bytes(x.n)), Op("OP_EQUALVERIFY"), push_int(1), Op("OP_ENDIF")>>
      [] x.op = "Csv" ->
            <<Op("OP_SWAP")>> \o SizeEqualVerifyIf
            \o <<push_int(x.n), Op("OP_CSV"), Op("OP_ELSE"), push_int(0), Op("OP_ENDIF")>>
      [] x.op = "CastE" ->
            <<Op("OP_TOALTSTACK")>> \o E_serialize(x.subs[1]) \o <<Op("OP_FROMALTSTACK")>>

F_serialize(x) ==
    CASE x.op = "CheckSig" -> <<Push(PkBytes(x.n)), Op("OP_CHECKSIGVERIFY"), push_int(1)>>
      [] x.op = "CheckSigHash" -> DupHash160(x.n) \o <<Op("OP_CHECKSIGVERIFY"), push_int(1)>>
      [] x.op = "CheckMultiSig" ->
            MultiBody(x) \o <<Op("OP_CHECKMULTISIGVERIFY"), push_int(1)>>
      [] x.op = "Csv" -> <<push_int(x.n), Op("OP_CSV")>>
      [] x.op = "HashEqual" ->
            <<Op("OP_SIZE"), push_int(32), Op("OP_EQUAL"), Op("OP_SHA256"),
              Push(Sha256Bytes(x.n)), Op("OP_EQUALVERIFY"), push_int(1)>>
      [] x.op = "Threshold" -> ThreshBody(x) \o <<Op("OP_EQUALVERIFY"), push_int(1)>>
      [] x.op = "And" -> V_serialize(x.subs[1]) \o F_serialize(x.subs[2])
      [] x.op = "ParallelOr" ->
            E_serialize(x.subs[1]) \o W_serialize(x.subs[2])
            \o <<Op("OP_BOOLOR"), Op("OP_VERIFY"), push_int(1)>>
      [] x.op = "SwitchOr" ->
            SizeEqualVerifyIf \o F_serialize(x.subs[1]) \o <<Op("OP_ELSE")>>
            \o F_serialize(x.subs[2]) \o <<Op("OP_ENDIF")>>
      [] x.op = "SwitchOrV" ->
            SizeEqualVerifyIf \o V_serialize(x.subs[1]) \o <<Op("OP_ELSE")>>
            \o V_serialize(x.subs[2]) \o <<Op("OP_ENDIF"), push_int(1)>>
      [] x.op = "CascadeOr" ->
            E_serialize(x.subs[1]) \o <<Op("OP_IFDUP"), Op("OP_NOTIF")>>
            \o F_serialize(x.subs[2]) \o <<Op("OP_ENDIF")>>
      [] x.op = "CascadeOrV" ->
            E_serialize(x.subs[1]) \o <<Op("OP_NOTIF")>> \o V_serialize(x.subs[2])
            \o <<Op("OP_ENDIF"), push_int(1)>>

V_serialize(x) ==
    CASE x.op = "CheckSig" -> <<Push(PkBytes(x.n)), Op("OP_CHECKSIGVERIFY")>>
      [] x.op = "CheckSigHash" -> DupHash160(x.n) \o <<Op("OP_CHECKSIGVERIFY")>>
      [] x.op = "CheckMultiSig" -> MultiBody(x) \o <<Op("OP_CHECKMULTISIGVERIFY")>>
      [] x.op = "Csv" -> <<push_int(x.n), Op("OP_CSV"), Op("OP_DROP")>>
      [] x.op = "HashEqual" ->
            <<Op("OP_SIZE"), push_int(32), Op("OP_EQUALVERIFY"), Op("OP_SHA256"),
              Push(Sha256Bytes(x.n)), Op("OP_EQUALVERIFY")>>
      [] x.op = "Threshold" -> ThreshBody(x) \o <<Op("OP_EQUALVERIFY")>>
      [] x.op = "And" -> V_serialize(x.subs[1]) \o V_serialize(x.subs[2])
      [] x.op = "ParallelOr" ->
            E_serialize(x.subs[1]) \o W_serialize(x.subs[2])
            \o <<Op("OP_BOOLOR"), Op("OP_VERIFY")>>
      [] x.op = "SwitchOr" ->
            SizeEqualVerifyIf \o V_serialize(x.subs[1]) \o <<Op("OP_ELSE")>>
            \o V_serialize(x.subs[2]) \o <<Op("OP_ENDIF")>>
      [] x.op = "SwitchOrT" ->
            SizeEqualVerifyIf \o T_serialize(x.subs[1]) \o <<Op("OP_ELSE")>>
            \o T_serialize(x.subs[2]) \o <<Op("OP_ENDIF"), Op("OP_VERIFY")>>
      [] x.op = "CascadeOr" ->
            E_serialize(x.subs[1]) \o <<Op("OP_NOTIF")>> \o V_serialize(x.subs[2])
            \o <<Op("OP_ENDIF")>>

T_serialize(x) ==
    CASE x.op = "HashEqual" ->
            <<Op("OP_SIZE"), push_int(32), Op("OP_EQUALVERIFY"), Op("OP_SHA256"),
              Push(Sha256Bytes(x.n)), Op("OP_EQUAL")>>
      [] x.op = "And" -> V_serialize(x.subs[1]) \o T_serialize(x.subs[2])
      [] x.op = "SwitchOr" ->
            SizeEqualVerifyIf \o T_serialize(x.subs[1]) \o <<Op("OP_ELSE")>>
            \o T_serialize(x.subs[2]) \o <<Op("OP_ENDIF")>>
      [] x.op = "CascadeOr" ->
            E_serialize(x.subs[1]) \o <<Op("OP_IFDUP"), Op("OP_NOTIF")>>
            \o T_serialize(x.subs[2]) \o <<Op("OP_ENDIF")>>
      [] x.op = "CastE" -> E_serialize(x.subs[1])
      [] x.op = "CastF" -> F_serialize(x.subs[1])

\* ParseTree::serialize
ParseTree_serialize(t) == T_serialize(t)

\* The serialized script of a node of any type.
serialize(x) ==
    CASE x.ty = "E" -> E_serialize(x)
      [] x.ty = "W" -> W_serialize(x)
      [] x.ty = "F" -> F_serialize(x)
      [] x.ty = "V" -> V_serialize(x)
      [] x.ty = "T" -> T_serialize(x)

(***************************************************************************)
(* The reverse parser.  A token sequence is read from its end: the next    *)
(* token is Last(toks) and what is left after taking it is Front(toks).    *)
(* un_next after next leaves the sequence as it was.                       *)
(***************************************************************************)
POk(node, rest) == [ok |-> TRUE, node |-> node, rest |-> rest, err |-> ""]
PErr(e) == [ok |-> FALSE, node |-> NoNode, rest |-> <<>>, err |-> e]

P(t) == [t |-> t, any |-> TRUE, v |-> 0]
PN(n) == [t |-> "Number", any |-> FALSE, v |-> n]
Matches(tok, pat) == tok.t = pat.t /\ (pat.any \/ tok.v = pat.v)

\* expect_token! applied to each pattern in turn.
RECURSIVE ExpectAll(_, _)
ExpectAll(toks, pats) ==
    IF pats = <<>> THEN [ok |-> TRUE, rest |-> toks, err |-> ""]
    ELSE IF toks = <<>> THEN [ok |-> FALSE, rest |-> <<>>, err |-> "UnexpectedStart"]
    ELSE IF Matches(Last(toks), Head(pats)) THEN ExpectAll(Front(toks), Tail(pats))
    ELSE [ok |-> FALSE, rest |-> <<>>, err |-> "Unexpected"]

\* The `for _ in 0..n` loop of the multisig arms: n Pubkey tokens, in pop order.
RECURSIVE ExpectKeys(_, _, _)
ExpectKeys(toks, n, pks) ==
    IF n = 0 THEN [ok |-> TRUE, rest |-> toks, pks |-> pks, err |-> ""]
    ELSE IF toks = <<>> THEN [ok |-> FALSE, rest |-> <<>>, pks |-> <<>>, err |-> "UnexpectedStart"]
    ELSE IF Last(toks).t = "Pubkey"
         THEN ExpectKeys(Front(toks), n - 1, Append(pks, Last(toks).v))
    ELSE [ok |-> FALSE, rest |-> <<>>, pks |-> <<>>, err |-> "Unexpected"]

RECURSIVE parse_subexpression(_), ArmParallel(_, _, _), ArmParallel_any(_, _, _), ArmThresholdE(_, _, _),
          ArmThresholdV(_, _, _), ArmEndIf(_), ArmVerify(_), ArmNumber1(_),
          ArmFromAltStack(_), SwitchLeft(_, _, _, _, _), CascadeLeft(_, _, _, _)

\* ArmParallel without the test that the operand is a W.
ArmParallel_any(rest, ty, op) ==
    LET w == parse_subexpression(rest) IN
    IF ~w.ok THEN w
    ELSE LET e == parse_subexpression(w.rest) IN
         IF ~e.ok THEN e
         ELSE IF ~is_e(e.node) THEN PErr("Unexpected")
         ELSE POk(Binary(ty, op, e.node, w.node), e.rest)

\* `#subexpression W: wexpr => { #subexpression E: expr => { .. } }`
ArmParallel(rest, ty, op) ==
    LET w == parse_subexpression(rest) IN
    IF ~w.ok THEN w
    ELSE IF ~is_w(w.node) THEN PErr("Unexpected")
    ELSE LET e == parse_subexpression(w.rest) IN
         IF ~e.ok THEN e
         ELSE IF ~is_e(e.node) THEN PErr("Unexpected")
         ELSE POk(Binary(ty, op, e.node, w.node), e.rest)

\* `Sha256Hash(hash), Sha256, EqualVerify, Number(32), Size` (rest ends in the hash)
ArmHashEqual(rest, ty) ==
    LET x == ExpectAll(Front(rest), <<P("Sha256"), P("EqualVerify"), PN(32), P("Size")>>) IN
    IF ~x.ok THEN PErr(x.err)
    ELSE POk(Leaf(ty, "HashEqual", Last(rest).v), x.rest)

\* The loop of the Equal arm: ws in the order the subexpressions are parsed.
ArmThresholdE(rest, k, ws) ==
    IF rest = <<>> THEN PErr("UnexpectedStart")
    ELSE IF Last(rest).t = "Add"
         THEN LET s == parse_subexpression(Front(rest)) IN
              IF ~s.ok THEN s
              ELSE IF is_w(s.node) THEN ArmThresholdE(s.rest, k, Append(ws, s.node))
              ELSE PErr("Unexpected")
    ELSE LET s == parse_subexpression(rest) IN
         IF ~s.ok THEN s
         ELSE IF is_e(s.node) THEN POk(Thresh("E", k, s.node, ws), s.rest)
         ELSE PErr("Unexpected")

\* The loop of the EqualVerify arm: it takes no Add token.
ArmThresholdV(rest, k, ws) ==
    LET s == parse_subexpression(rest) IN
    IF ~s.ok THEN s
    ELSE IF is_w(s.node) THEN ArmThresholdV(s.rest, k, Append(ws, s.node))
    ELSE IF is_e(s.node) THEN POk(Thresh("V", k, s.node, ws), s.rest)
    ELSE PErr("Unexpected")

ArmEqual(rest) ==
    IF rest = <<>> THEN PErr("UnexpectedStart")
    ELSE IF Last(rest).t = "Sha256Hash" THEN ArmHashEqual(rest, "T")
    ELSE IF Last(rest).t = "Number" THEN ArmThresholdE(Front(rest), Last(rest).v, <<>>)
    ELSE PErr("Unexpected")

ArmEqualVerify(rest) ==
    IF rest = <<>> THEN PErr("UnexpectedStart")
    ELSE IF Last(rest).t = "Sha256Hash" THEN ArmHashEqual(rest, "V")
    ELSE IF Last(rest).t = "Number" THEN ArmThresholdV(Front(rest), Last(rest).v, <<>>)
    ELSE PErr("Unexpected")

\* `EqualVerify => { Hash160Hash(hash), Hash160, Dup => .. }` (rest ends in EqualVerify)
ArmSigHash(rest, ty) ==
    LET x == ExpectAll(Front(rest), <<P("Hash160Hash"), P("Hash160"), P("Dup")>>) IN
    IF ~x.ok THEN PErr(x.err)
    ELSE POk(Leaf(ty, "CheckSigHash", Last(Front(rest)).v), x.rest)

ArmCheckSig(rest) ==
    IF rest = <<>> THEN PErr("UnexpectedStart")
    ELSE IF Last(rest).t = "EqualVerify" THEN ArmSigHash(rest, "E")
    ELSE IF Last(rest).t = "Pubkey"
         THEN LET r2 == Front(rest) IN
              IF r2 # <<>> /\ Last(r2).t = "Swap"
              THEN POk(Leaf("W", "CheckSig", Last(rest).v), Front(r2))
              ELSE POk(Leaf("E", "CheckSig", Last(rest).v), r2)
    ELSE PErr("Unexpected")

ArmCheckSigVerify(rest) ==
    IF rest = <<>> THEN PErr("UnexpectedStart")
    ELSE IF Last(rest).t = "EqualVerify" THEN ArmSigHash(rest, "V")
    ELSE IF Last(rest).t = "Pubkey" THEN POk(Leaf("V", "CheckSig", Last(rest).v), Front(rest))
    ELSE PErr("Unexpected")

ArmCheckMultiSig(rest, ty) ==
    LET n == ExpectAll(rest, <<P("Number")>>) IN
    IF ~n.ok THEN PErr(n.err)
    ELSE LET keys == ExpectKeys(n.rest, Last(rest).v, <<>>) IN
         IF ~keys.ok THEN PErr(keys.err)
         ELSE LET k == ExpectAll(keys.rest, <<P("Number")>>) IN
              IF ~k.ok THEN PErr(k.err)
              ELSE POk(Multi(ty, "CheckMultiSig", Last(keys.rest).v, Reverse(keys.pks)),
                       k.rest)

ArmCsv(rest, ty) ==
    LET n == ExpectAll(rest, <<P("Number")>>) IN
    IF ~n.ok THEN PErr(n.err) ELSE POk(Leaf(ty, "Csv", Last(rest).v), n.rest)

ArmDrop(rest) ==
    LET c == ExpectAll(rest, <<P("CheckSequenceVerify")>>) IN
    IF ~c.ok THEN PErr(c.err) ELSE ArmCsv(c.rest, "V")

ArmFromAltStack(rest) ==
    LET e == parse_subexpression(rest) IN
    IF ~e.ok THEN e
    ELSE IF ~is_e(e.node) THEN PErr("Unexpected")
    ELSE LET x == ExpectAll(e.rest, <<P("ToAltStack")>>) IN
         IF ~x.ok THEN PErr(x.err) ELSE POk(Unary("W", "CastE", e.node), x.rest)

\* `#subexpression X: left, Token::If, Token::EqualVerify, Token::Size => SwitchOr`
SwitchLeft(rest, right, lty, ty, op) ==
    LET l == parse_subexpression(rest) IN
    IF ~l.ok THEN l
    ELSE IF ~(IF lty = "T" THEN is_t(l.node) ELSE l.node.ty = lty) THEN PErr("Unexpected")
    ELSE LET x == ExpectAll(l.rest, <<P("If"), P("EqualVerify"), P("Size")>>) IN
         IF ~x.ok THEN PErr(x.err)
         ELSE POk(Binary(ty, op, IF lty = "T" THEN into_t(l.node) ELSE l.node, right),
                  x.rest)

\* `#subexpression E: left => X(left, right)`
CascadeLeft(rest, right, ty, op) ==
    LET l == parse_subexpression(rest) IN
    IF ~l.ok THEN l
    ELSE IF ~is_e(l.node) THEN PErr("Unexpected")
    ELSE POk(Binary(ty, op, l.node, right), l.rest)

\* `Token::NotIf, Token::IfDup => { #subexpression E: left => .. }`
NotIfIfDup(rest, right, ty, op) ==
    LET x == ExpectAll(rest, <<P("IfDup")>>) IN
    IF ~x.ok THEN PErr(x.err) ELSE CascadeLeft(x.rest, right, ty, op)

\* `Token::Number(0), Token::Else => { #subexpression F: right => { Token::If => .. } }`
\* (rest is what precedes the Else)
ArmEndIfElse0(rest) ==
    LET r == parse_subexpression(rest) IN
    IF ~r.ok THEN r
    ELSE IF ~is_f(r.node) THEN PErr("Unexpected")
    ELSE IF r.rest = <<>> THEN PErr("UnexpectedStart")
    ELSE IF Last(r.rest).t # "If" THEN PErr("Unexpected")
    ELSE LET t1 == Front(r.rest) IN
         IF t1 = <<>> THEN PErr("UnexpectedStart")
         ELSE IF Last(t1).t = "EqualVerify"
              THEN LET x == ExpectAll(Front(t1), <<P("Size")>>) IN
                   IF ~x.ok THEN PErr(x.err)
                   ELSE IF r.node.op = "Csv"
                        THEN IF x.rest # <<>> /\ Last(x.rest).t = "Swap"
                             THEN POk(Leaf("W", "Csv", r.node.n), Front(x.rest))
                             ELSE POk(Unary("E", "CastF", r.node), x.rest)
                   ELSE IF r.node.op \in {"And", "SwitchOr", "SwitchOrV", "CascadeOr"}
                        THEN POk(Unary("E", "CastF", r.node), x.rest)
                   ELSE PErr("Unexpected")
         ELSE CascadeLeft(t1, r.node, "E", "CascadeAnd")

\* `F: right => { .. Token::If, Token::Size => {{ match *right .. }} .. }`
\* (rest is what precedes the Size)
ArmSizeIf(rest, right) ==
    IF right.op = "CheckSigHash" THEN POk(Leaf("E", "CheckSigHashF", right.n), rest)
    ELSE IF right.op = "CheckMultiSig"
         THEN POk(Multi("E", "CheckMultiSigF", right.n, right.ks), rest)
    ELSE IF right.op = "HashEqual"
         THEN IF rest # <<>> /\ Last(rest).t = "Swap"
              THEN POk(Leaf("W", "HashEqual", right.n), Front(rest))
              ELSE POk(Leaf("E", "HashEqual", right.n), rest)
    ELSE PErr("Unexpected")

\* The EndIf arm (rest is what precedes the EndIf)
ArmEndIf(rest) ==
    IF rest = <<>> THEN PErr("UnexpectedStart")
    ELSE IF Last(rest) = Number(0)
         THEN LET x == ExpectAll(Front(rest), <<P("Else")>>) IN
              IF ~x.ok THEN PErr(x.err) ELSE ArmEndIfElse0(x.rest)
    ELSE LET r == parse_subexpression(rest) IN
         IF ~r.ok THEN r
         ELSE LET right == r.node
                  t == IF r.rest = <<>> THEN "" ELSE Last(r.rest).t
                  more == IF r.rest = <<>> THEN <<>> ELSE Front(r.rest)
              IN
              IF ~(is_e(right) \/ is_f(right) \/ is_v(right) \/ is_t(right))
              THEN PErr("Unexpected")
              ELSE IF r.rest = <<>> THEN PErr("UnexpectedStart")
              ELSE IF is_e(right)
                   THEN IF t = "NotIf" THEN NotIfIfDup(more, right, "E", "CascadeOr")
                        ELSE PErr("Unexpected")
              ELSE IF is_f(right)
                   THEN IF t = "NotIf" THEN NotIfIfDup(more, right, "F", "CascadeOr")
                        ELSE IF t = "If"
                             THEN LET x == ExpectAll(more, <<P("Size")>>) IN
                                  IF ~x.ok THEN PErr(x.err) ELSE ArmSizeIf(x.rest, right)
                        ELSE IF t = "Else" THEN SwitchLeft(more, right, "F", "F", "SwitchOr")
                        ELSE PErr("Unexpected")
              ELSE IF is_v(right)
                   THEN IF t = "Else" THEN SwitchLeft(more, right, "V", "V", "SwitchOr")
                        ELSE IF t = "NotIf" THEN CascadeLeft(more, right, "V", "CascadeOr")
                        ELSE PErr("Unexpected")
              ELSE IF t = "Else" THEN SwitchLeft(more, right, "T", "T", "SwitchOr")
                   ELSE IF t = "NotIf" THEN NotIfIfDup(more, right, "T", "CascadeOr")
                   ELSE PErr("Unexpected")

\* The Verify arm (rest is what precedes the Verify)
ArmVerify(rest) ==
    IF rest = <<>> THEN PErr("UnexpectedStart")
    ELSE IF Last(rest).t = "EndIf"
         THEN LET r == parse_subexpression(Front(rest)) IN
              IF ~r.ok THEN r
              ELSE IF ~is_t(r.node) THEN PErr("Unexpected")
              ELSE LET x == ExpectAll(r.rest, <<P("Else")>>) IN
                   IF ~x.ok THEN PErr(x.err)
                   ELSE SwitchLeft(x.rest, into_t(r.node), "T", "V", "SwitchOrT")
    ELSE IF Last(rest).t = "BoolOr" THEN ArmParallel(Front(rest), "V", "ParallelOr")
    ELSE PErr("Unexpected")

\* The Number(1) arm: a V followed by 1 is the F of the same name.
ArmNumber1(rest) ==
    LET r == parse_subexpression(rest) IN
    IF ~r.ok THEN r
    ELSE IF ~is_v(r.node) THEN PErr("Unexpected")
    ELSE IF r.node.op \in {"CheckSig", "CheckSigHash", "CheckMultiSig", "HashEqual",
                           "Threshold", "ParallelOr"}
         THEN POk([r.node EXCEPT !.ty = "F"], r.rest)
    ELSE IF r.node.op = "SwitchOr" THEN POk([r.node EXCEPT !.ty = "F", !.op = "SwitchOrV"], r.rest)
    ELSE IF r.node.op = "CascadeOr" THEN POk([r.node EXCEPT !.ty = "F", !.op = "CascadeOrV"], r.rest)
    ELSE PErr("Unexpected")

\* The value `ret` of the parse_tree! dispatch on the last token.
ParseArm(toks) ==
    IF toks = <<>> THEN PErr("UnexpectedStart")
    ELSE LET tok == Last(toks)
             rest == Front(toks)
         IN
         CASE tok.t = "BoolAnd" -> ArmParallel(rest, "E", "ParallelAnd")
           [] tok.t = "BoolOr" -> ArmParallel(rest, "E", "ParallelOr")
           [] tok.t = "Equal" -> ArmEqual(rest)
           [] tok.t = "EqualVerify" -> ArmEqualVerify(rest)
           [] tok.t = "CheckSig" -> ArmCheckSig(rest)
           [] tok.t = "CheckSigVerify" -> ArmCheckSigVerify(rest)
           [] tok.t = "CheckMultiSig" -> ArmCheckMultiSig(rest, "E")
           [] tok.t = "CheckMultiSigVerify" -> ArmCheckMultiSig(rest, "V")
           [] tok.t = "CheckSequenceVerify" -> ArmCsv(rest, "F")
           [] tok.t = "FromAltStack" -> ArmFromAltStack(rest)
           [] tok.t = "Drop" -> ArmDrop(rest)
           [] tok.t = "EndIf" -> ArmEndIf(rest)
           [] tok.t = "Verify" -> ArmVerify(rest)
           [] tok = Number(1) -> ArmNumber1(rest)
           [] OTHER -> PErr("Unexpected")

\* The And of a V with the T, F or V to its right, checked in the order of the code.
AndOf(left, ret) ==
    IF is_t(ret) THEN Binary("T", "And", left, into_t(ret))
    ELSE IF is_f(ret) THEN Binary("F", "And", left, ret)
    ELSE Binary("V", "And", left, ret)

\* The branch the And combination takes for the expression to the right:
\* the conversion it unwraps, or the unreachable!() of the last else.
AndBranch(ret) ==
    IF is_t(ret) THEN "T"
    ELSE IF is_f(ret) THEN "F"
    ELSE IF is_v(ret) THEN "V"
    ELSE "unreachable"

parse_subexpression(toks) ==
    LET ret == ParseArm(toks) IN
    IF ~ret.ok THEN ret
    ELSE IF is_t(ret.node) \/ is_f(ret.node) \/ is_v(ret.node)
         THEN IF ret.rest = <<>> \/ Last(ret.rest).t \in {"If", "NotIf", "Else"}
              THEN ret
              ELSE LET l == parse_subexpression(ret.rest) IN
                   IF ~l.ok THEN l
                   ELSE IF ~is_v(l.node) THEN PErr("Unexpected")
                   ELSE POk(AndOf(l.node, ret.node), l.rest)
    ELSE ret

\* ParseTree::parse from the token iterator on: the outermost subexpression,
\* which must be a T and leave no token.
ParseTokens(toks) ==
    LET top == parse_subexpression(toks) IN
    IF ~top.ok THEN [ok |-> FALSE, tree |-> NoNode, err |-> top.err]
    ELSE IF ~is_t(top.node) THEN [ok |-> FALSE, tree |-> NoNode, err |-> "Unexpected"]
    ELSE IF top.rest # <<>> THEN [ok |-> FALSE, tree |-> NoNode, err |-> "Unexpected"]
    ELSE [ok |-> TRUE, tree |-> into_t(top.node), err |-> ""]

\* ParseTree::parse
ParseTree_parse(scr) ==
    LET l == lex(scr) IN
    IF ~l.ok THEN [ok |-> FALSE, tree |-> NoNode, err |-> l.err]
    ELSE ParseTokens(l.toks)

(***************************************************************************)
(* The compiler.  A descriptor is a node of type D: Key, KeyHash, Multi,   *)
(* Time, Hash, Threshold, And, Or, AsymmetricOr.  A satisfaction           *)
(* probability is a fraction <<num, den>>; the f64 arithmetic of the code  *)
(* is exact on the dyadic fractions the bounded descriptors produce.  The  *)
(* build (debug or release) decides whether debug_assert_eq! is compiled   *)
(* in.  A compilation yields a Cost or panics.                             *)
(***************************************************************************)
Cost(ast, pk_cost, sat_cost, dissat_cost) ==
    [st |-> "ok", why |-> "", ast |-> ast,
     pk_cost |-> pk_cost, sat_cost |-> sat_cost, dissat_cost |-> dissat_cost]
Panic(why) ==
    [st |-> "panic", why |-> why, ast |-> NoNode,
     pk_cost |-> 0, sat_cost |-> 0, dissat_cost |-> 0]

P1 == <<1, 1>>
P0 == <<0, 1>>
Half(p) == <<p[1], 2 * p[2]>>
Scale(p, k, n) == <<p[1] * k, p[2] * n>>
IsOne(p) == p[1] = p[2]

\* Hash160::from_data of a serialized key: the hash is named after the key.
Hash160Of(pk) == 100 + pk

\* Length in bytes of one instruction (pushes shorter than 76 bytes).
InsLen(ins) == IF ins.k = "op" THEN 1 ELSE 1 + Len(ins.data)
ScriptLen(scr) == SumSeq([i \in 1..Len(scr) |-> InsLen(scr[i])])

\* The weight of min_cost, times the denominator of sat_prob.
Weight(c, p) == c.pk_cost * p[2] + p[1] * c.sat_cost + (p[2] - p[1]) * c.dissat_cost

\* A variant of min_cost that keeps the heavier of the two (C16's formula
\* must notice).
min_cost_heavier(one, two, sat_prob) ==
    IF Weight(one, sat_prob) > Weight(two, sat_prob) THEN one ELSE two

min_cost(one, two, sat_prob) ==
    IF Weight(one, sat_prob) < Weight(two, sat_prob) THEN one ELSE two

\* The first panic met evaluating cs in order, or Cost if there is none.
FirstPanic(cs) ==
    IF \E i \in 1..Len(cs) : cs[i].st = "panic"
    THEN cs[CHOOSE i \in 1..Len(cs) :
                /\ cs[i].st = "panic"
                /\ \A j \in 1..(i - 1) : cs[j].st = "ok"]
    ELSE Cost(NoNode, 0, 0, 0)

\* One rule of compare_rules!: L and R are compiled, then the Cost is built.
Rule(L, R, c) == IF L.st = "panic" THEN L ELSE IF R.st = "panic" THEN R ELSE c

RECURSIVE FoldMin(_, _, _)
FoldMin(acc, ns, sat_prob) ==
    IF ns = <<>> THEN acc
    ELSE FoldMin(min_cost(acc, Head(ns), sat_prob), Tail(ns), sat_prob)

\* compare_rules!: all rules are built, the last one is popped and folded
\* over the others with min_cost.
compare_rules(sat_prob, ret) ==
    IF FirstPanic(ret).st = "panic" THEN FirstPanic(ret)
    ELSE FoldMin(Last(ret), Front(ret), sat_prob)

MultiNumCost(k, n) ==
    IF k > 16 /\ n > 16 THEN 4 ELSE IF k > 16 \/ n > 16 THEN 3 ELSE 2

\* X::from_descriptor for X the type named by ty.
RECURSIVE from_descriptor(_, _, _, _)

\* The Threshold arm of E, F and V::from_descriptor; extra is what the
\* variant adds to pk_cost besides the pushed k.
ThresholdCost(ty, extra, d, p, b) ==
    IF d.subs = <<>> THEN Panic("empty threshold")
    ELSE LET n == Len(d.subs)
             q == Scale(p, d.n, n)
             subs == [i \in 1..n |->
                        IF i = 1 THEN from_descriptor("E", d.subs[1], q, b)
                        ELSE from_descriptor("W", d.subs[i], q, b)]
         IN  IF FirstPanic(subs).st = "panic" THEN FirstPanic(subs)
             ELSE Cost(Thresh(ty, d.n, subs[1].ast, [i \in 1..(n - 1) |-> subs[i + 1].ast]),
                       extra + InsLen(push_int(d.n)) + SumSeq([i \in 1..n |-> subs[i].pk_cost]),
                       (SumSeq([i \in 1..n |-> subs[i].sat_cost]) * d.n) \div n,
                       (SumSeq([i \in 1..n |-> subs[i].dissat_cost]) * d.n) \div n)

\* The E::CastF alternative of the Or arms of E::from_descriptor.
CastFCost(fcost) ==
    IF fcost.st = "panic" THEN fcost
    ELSE Cost(Unary("E", "CastF", fcost.ast), fcost.pk_cost + 6, 1 + fcost.sat_cost, 2)

\* The candidates E::from_descriptor builds for a KeyHash, Multi, And, Or or
\* AsymmetricOr, in the order of the code (for the two Or: the two
\* ParallelOr rules, then the E::CastF of the F compilation).
E_rules(d, p, b) ==
    LET left == d.subs[1]
        right == d.subs[2]
    IN
    CASE d.op = "KeyHash" ->
            <<Cost(Leaf("E", "CheckSigHash", Hash160Of(d.n)), 25, 34 + 73, 34 + 1),
              Cost(Leaf("E", "CheckSigHashF", Hash160Of(d.n)), 29, 34 + 73, 1)>>
      [] d.op = "Multi" ->
            LET num_cost == MultiNumCost(d.n, Len(d.ks)) IN
            <<Cost(Multi("E", "CheckMultiSig", d.n, d.ks),
                   num_cost + 34 * Len(d.ks) + 1, 1 + 73 * d.n, 1 + d.n),
              Cost(Multi("E", "CheckMultiSigF", d.n, d.ks),
                   num_cost + 34 * Len(d.ks) + 5, 1 + 73 * d.n, 1)>>
      [] d.op = "And" ->
            LET el == from_descriptor("E", left, p, b)
                wr == from_descriptor("W", right, p, b)
                wl == from_descriptor("W", left, p, b)
                er == from_descriptor("E", right, p, b)
                fr == from_descriptor("F", right, P1, b)
                fl == from_descriptor("F", left, P1, b)
                vl == from_descriptor("V", left, P1, b)
                vr == from_descriptor("V", right, P1, b)
            IN  <<Rule(el, wr, Cost(Binary("E", "ParallelAnd", el.ast, wr.ast),
                       el.pk_cost + wr.pk_cost + 1, el.sat_cost + wr.sat_cost,
                       el.dissat_cost + wr.dissat_cost)),
                  Rule(wl, er, Cost(Binary("E", "ParallelAnd", er.ast, wl.ast),
                       wl.pk_cost + er.pk_cost + 1, wl.sat_cost + er.sat_cost,
                       wl.dissat_cost + er.dissat_cost)),
                  Rule(el, fr, Cost(Binary("E", "CascadeAnd", el.ast, fr.ast),
                       el.pk_cost + fr.pk_cost + 4, el.sat_cost + fr.sat_cost,
                       el.dissat_cost)),
                  Rule(fl, er, Cost(Binary("E", "CascadeAnd", er.ast, fl.ast),
                       fl.pk_cost + er.pk_cost + 4, fl.sat_cost + er.sat_cost,
                       er.dissat_cost)),
                  Rule(vl, fr, Cost(Unary("E", "CastF", Binary("F", "And", vl.ast, fr.ast)),
                       vl.pk_cost + fr.pk_cost + 6, vl.sat_cost + fr.sat_cost + 1, 2)),
                  Rule(fl, vr, Cost(Unary("E", "CastF", Binary("F", "And", vr.ast, fl.ast)),
                       fl.pk_cost + vr.pk_cost + 6, fl.sat_cost + vr.sat_cost + 1, 2))>>
      [] d.op = "Or" ->
            LET el == from_descriptor("E", left, Half(p), b)
                wr == from_descriptor("W", right, Half(p), b)
                wl == from_descriptor("W", left, Half(p), b)
                er == from_descriptor("E", right, Half(p), b)
            IN  <<Rule(el, wr, Cost(Binary("E", "ParallelOr", el.ast, wr.ast),
                       el.pk_cost + wr.pk_cost + 1,
                       (el.sat_cost + wr.sat_cost + el.dissat_cost + wr.dissat_cost) \div 2,
                       el.dissat_cost + wr.dissat_cost)),
                  Rule(wl, er, Cost(Binary("E", "ParallelOr", er.ast, wl.ast),
                       wl.pk_cost + er.pk_cost + 1,
                       (wl.sat_cost + er.sat_cost + wl.dissat_cost + er.dissat_cost) \div 2,
                       wl.dissat_cost + er.dissat_cost)),
                  CastFCost(from_descriptor("F", d, p, b))>>
      [] d.op = "AsymmetricOr" ->
            LET el == from_descriptor("E", left, p, b)
                wr == from_descriptor("W", right, P0, b)
                wl == from_descriptor("W", left, p, b)
                er == from_descriptor("E", right, P0, b)
            IN  <<Rule(el, wr, Cost(Binary("E", "ParallelOr", el.ast, wr.ast),
                       el.pk_cost + wr.pk_cost + 1, el.sat_cost + wr.dissat_cost,
                       el.dissat_cost + wr.dissat_cost)),
                  Rule(wl, er, Cost(Binary("E", "ParallelOr", er.ast, wl.ast),
                       wl.pk_cost + er.pk_cost + 1, wl.sat_cost + er.dissat_cost,
                       wl.dissat_cost + er.dissat_cost)),
                  CastFCost(from_descriptor("F", d, p, b))>>

E_from_descriptor(d, p, b) ==
    CASE d.op = "Key" -> Cost(Leaf("E", "CheckSig", d.n), 35, 73, 1)
      [] d.op \in {"KeyHash", "Multi"} -> min_cost(E_rules(d, p, b)[1], E_rules(d, p, b)[2], p)
      [] d.op = "Time" ->
            LET f == from_descriptor("F", d, P1, b) IN
            IF f.st = "panic" THEN f
            ELSE Cost(Unary("E", "CastF", f.ast), f.pk_cost + 6, 1, 2)
      [] d.op = "Hash" -> Cost(Leaf("E", "HashEqual", d.n), 31, 33, 1)
      [] d.op = "Threshold" -> ThresholdCost("E", 1, d, p, b)
      [] d.op = "And" -> compare_rules(p, E_rules(d, p, b))
      [] d.op \in {"Or", "AsymmetricOr"} ->
            LET rules == E_rules(d, p, b)
                e == compare_rules(p, SubSeq(rules, 1, 2))
                f == rules[3]
            IN  IF e.st = "panic" THEN e
                ELSE IF f.st = "panic" THEN f
                ELSE min_cost(e, f, p)
      [] OTHER -> Panic("unreachable")

W_from_descriptor(d, p, b) ==
    CASE d.op = "Key" -> Cost(Leaf("W", "CheckSig", d.n), 36, 73, 1)
      [] d.op = "Hash" -> Cost(Leaf("W", "HashEqual", d.n), 32, 33, 1)
      [] d.op = "Time" -> Cost(Leaf("W", "Csv", d.n), 8 + InsLen(push_int(d.n)), 1, 2)
      [] d.op \in {"KeyHash", "Multi", "And", "Or", "AsymmetricOr", "Threshold"} ->
            LET e == from_descriptor("E", d, p, b) IN
            IF e.st = "panic" THEN e
            ELSE Cost(Unary("W", "CastE", e.ast), e.pk_cost + 2, e.sat_cost, e.dissat_cost)
      [] OTHER -> Panic("unreachable")

\* debug_assert_eq!(satisfaction_probability, 1.0) fails, in a debug build.
DebugAssertFails(p, b) == b = "debug" /\ ~IsOne(p)

\* The candidates F::from_descriptor builds for an And, Or or AsymmetricOr,
\* in the order of the code.
F_rules(d, p, b) ==
    LET left == d.subs[1]
        right == d.subs[2]
    IN
    CASE d.op = "And" ->
            LET vl == from_descriptor("V", left, p, b)
                vr == from_descriptor("V", right, p, b)
                fl == from_descriptor("F", left, p, b)
                fr == from_descriptor("F", right, p, b)
            IN  <<Cost(Binary("F", "And", vl.ast, fr.ast),
                       vl.pk_cost + fr.pk_cost, vl.sat_cost + fr.sat_cost, 0),
                  Cost(Binary("F", "And", vr.ast, fl.ast),
                       vr.pk_cost + fl.pk_cost, vr.sat_cost + fl.sat_cost, 0)>>
      [] d.op = "Or" ->
            LET el == from_descriptor("E", left, Half(p), b)
                wr == from_descriptor("W", right, Half(p), b)
                wl == from_descriptor("W", left, Half(p), b)
                er == from_descriptor("E", right, Half(p), b)
                fr == from_descriptor("F", right, P1, b)
                fl == from_descriptor("F", left, P1, b)
                vr == from_descriptor("V", right, P1, b)
                vl == from_descriptor("V", left, P1, b)
            IN  <<Rule(el, wr, Cost(Binary("F", "ParallelOr", el.ast, wr.ast),
                       el.pk_cost + wr.pk_cost + 3,
                       (el.sat_cost + wr.sat_cost + el.dissat_cost + wr.dissat_cost) \div 2, 0)),
                  Rule(wl, er, Cost(Binary("F", "ParallelOr", er.ast, wl.ast),
                       wl.pk_cost + er.pk_cost + 3,
                       (wl.sat_cost + er.sat_cost + wl.dissat_cost + er.dissat_cost) \div 2, 0)),
                  Rule(el, fr, Cost(Binary("F", "CascadeOr", el.ast, fr.ast),
                       el.pk_cost + fr.pk_cost + 3,
                       (el.sat_cost + el.dissat_cost + fr.sat_cost) \div 2, 0)),
                  Rule(fl, er, Cost(Binary("F", "CascadeOr", er.ast, fl.ast),
                       fl.pk_cost + er.pk_cost + 3,
                       (er.sat_cost + er.dissat_cost + fl.sat_cost) \div 2, 0)),
                  Rule(el, vr, Cost(Binary("F", "CascadeOrV", el.ast, vr.ast),
                       el.pk_cost + vr.pk_cost + 3,
                       (el.sat_cost + el.dissat_cost + vr.sat_cost) \div 2, 0)),
                  Rule(vl, er, Cost(Binary("F", "CascadeOrV", er.ast, vl.ast),
                       vl.pk_cost + er.pk_cost + 3,
                       (er.sat_cost + er.dissat_cost + vl.sat_cost) \div 2, 0)),
                  Rule(fl, fr, Cost(Binary("F", "SwitchOr", fl.ast, fr.ast),
                       fl.pk_cost + fr.pk_cost + 5,
                       (fl.sat_cost + fr.sat_cost + 3) \div 2, 0)),
                  Rule(vl, vr, Cost(Binary("F", "SwitchOrV", vl.ast, vr.ast),
                       vl.pk_cost + vr.pk_cost + 6,
                       (vl.sat_cost + vr.sat_cost + 3) \div 2, 0))>>
      [] d.op = "AsymmetricOr" ->
            LET el == from_descriptor("E", left, p, b)
                wr == from_descriptor("W", right, P0, b)
                wl == from_descriptor("W", left, p, b)
                er == from_descriptor("E", right, P0, b)
                fr == from_descriptor("F", right, P1, b)
                fl == from_descriptor("F", left, P1, b)
                vr == from_descriptor("V", right, P1, b)
                vl == from_descriptor("V", left, P1, b)
            IN  <<Rule(el, wr, Cost(Binary("F", "ParallelOr", el.ast, wr.ast),
                       el.pk_cost + wr.pk_cost + 3, el.sat_cost + wr.dissat_cost, 0)),
                  Rule(wl, er, Cost(Binary("F", "ParallelOr", er.ast, wl.ast),
                       wl.pk_cost + er.pk_cost + 3, wl.sat_cost + er.dissat_cost, 0)),
                  Rule(el, fr, Cost(Binary("F", "CascadeOr", el.ast, fr.ast),
                       el.pk_cost + fr.pk_cost + 3, el.sat_cost, 0)),
                  Rule(fl, er, Cost(Binary("F", "CascadeOr", er.ast, fl.ast),
                       fl.pk_cost + er.pk_cost + 3, er.dissat_cost + fl.sat_cost, 0)),
                  Rule(el, vr, Cost(Binary("F", "CascadeOrV", el.ast, vr.ast),
                       el.pk_cost + vr.pk_cost + 3, el.sat_cost, 0)),
                  Rule(vl, er, Cost(Binary("F", "CascadeOrV", er.ast, vl.ast),
                       vl.pk_cost + er.pk_cost + 3, er.dissat_cost + vl.sat_cost, 0)),
                  Rule(fl, fr, Cost(Binary("F", "SwitchOr", fr.ast, fl.ast),
                       fl.pk_cost + fr.pk_cost + 5, fl.sat_cost + 1, 0)),
                  Rule(vl, vr, Cost(Binary("F", "SwitchOrV", vr.ast, vl.ast),
                       vl.pk_cost + vr.pk_cost + 6, vl.sat_cost + 1, 0))>>

F_from_descriptor(d, p, b) ==
    LET left == d.subs[1]
        right == d.subs[2]
    IN
    IF DebugAssertFails(p, b) THEN Panic("debug_assert")
    ELSE
    CASE d.op = "Key" -> Cost(Leaf("F", "CheckSig", d.n), 36, 73, 0)
      [] d.op = "KeyHash" -> Cost(Leaf("F", "CheckSigHash", Hash160Of(d.n)), 26, 34 + 73, 0)
      [] d.op = "Multi" ->
            Cost(Multi("F", "CheckMultiSig", d.n, d.ks),
                 MultiNumCost(d.n, Len(d.ks)) + 34 * Len(d.ks) + 2, 1 + 73 * d.n, 0)
      [] d.op = "Threshold" -> ThresholdCost("F", 2, d, p, b)
      [] d.op = "Time" -> Cost(Leaf("F", "Csv", d.n), 1 + InsLen(push_int(d.n)), 0, 0)
      [] d.op = "Hash" -> Cost(Leaf("F", "HashEqual", d.n), 28, 33, 0)
      [] d.op = "And" ->
            LET vl == from_descriptor("V", left, p, b)
                vr == from_descriptor("V", right, p, b)
                fl == from_descriptor("F", left, p, b)
                fr == from_descriptor("F", right, p, b)
                rules == F_rules(d, p, b)
            IN  IF FirstPanic(<<vl, vr, fl, fr>>).st = "panic"
                THEN FirstPanic(<<vl, vr, fl, fr>>)
                ELSE IF rules[1].pk_cost + rules[1].sat_cost
                          < rules[2].pk_cost + rules[2].sat_cost
                     THEN rules[1]
                     ELSE rules[2]
      [] d.op \in {"Or", "AsymmetricOr"} -> compare_rules(p, F_rules(d, p, b))
      [] OTHER -> Panic("unreachable")

V_from_descriptor(d, p, b) ==
    IF DebugAssertFails(p, b) THEN Panic("debug_assert")
    ELSE
    CASE d.op = "Key" -> Cost(Leaf("V", "CheckSig", d.n), 35, 73, 0)
      [] d.op = "KeyHash" -> Cost(Leaf("V", "CheckSigHash", Hash160Of(d.n)), 25, 34 + 73, 0)
      [] d.op = "Multi" ->
            Cost(Multi("V", "CheckMultiSig", d.n, d.ks),
                 MultiNumCost(d.n, Len(d.ks)) + 34 * Len(d.ks) + 1, 1 + 73 * d.n, 0)
      [] d.op = "Time" -> Cost(Leaf("V", "Csv", d.n), 2 + InsLen(push_int(d.n)), 0, 0)
      [] d.op = "Hash" -> Cost(Leaf("V", "HashEqual", d.n), 27, 33, 1)
      [] d.op = "Threshold" -> ThresholdCost("V", 1, d, p, b)
      [] d.op = "And" ->
            LET l == from_descriptor("V", d.subs[1], p, b)
                r == from_descriptor("V", d.subs[2], p, b)
            IN  IF FirstPanic(<<l, r>>).st = "panic" THEN FirstPanic(<<l, r>>)
                ELSE Cost(Binary("V", "And", l.ast, r.ast),
                          l.pk_cost + r.pk_cost, l.sat_cost + r.sat_cost, 0)
      [] d.op \in {"Or", "AsymmetricOr"} -> Panic("unimplemented")
      [] OTHER -> Panic("unreachable")

\* Iterator::min_by_key returns the first of several equally small elements.
MinByKey(options) ==
    options[CHOOSE i \in 1..Len(options) :
                /\ \A j \in 1..Len(options) :
                      options[i].pk_cost + options[i].sat_cost
                          <= options[j].pk_cost + options[j].sat_cost
                /\ \A j \in 1..(i - 1) :
                      options[i].pk_cost + options[i].sat_cost
                          < options[j].pk_cost + options[j].sat_cost]

\* A Cost<X> taken over as a Cost<T> with no dissatisfaction.
AsT(op, c) ==
    IF c.st = "panic" THEN c ELSE Cost(Unary("T", op, c.ast), c.pk_cost, c.sat_cost, 0)

\* For an And, Or or AsymmetricOr: the four compilations of the children
\* T::from_descriptor makes, then the Costs built from them, in the order
\* they are pushed on `options`.
T_more(d, p, b) ==
    LET left == d.subs[1]
        right == d.subs[2]
    IN
    CASE d.op = "And" ->
            LET lv == from_descriptor("V", left, P1, b)
                rv == from_descriptor("V", right, P1, b)
                lt == from_descriptor("T", left, P1, b)
                rt == from_descriptor("T", right, P1, b)
            IN  <<lv, rv, lt, rt,
                  Cost(Binary("T", "And", lv.ast, rt.ast),
                       lv.pk_cost + rt.pk_cost, lv.sat_cost + rt.sat_cost, 0),
                  Cost(Binary("T", "And", rv.ast, lt.ast),
                       lt.pk_cost + rv.pk_cost, lt.sat_cost + rv.sat_cost, 0)>>
      [] d.op = "Or" ->
            LET le == from_descriptor("E", left, Half(p), b)
                re == from_descriptor("E", right, Half(p), b)
                lt == from_descriptor("T", left, P1, b)
                rt == from_descriptor("T", right, P1, b)
            IN  <<le, re, lt, rt,
                  Cost(Binary("T", "CascadeOr", le.ast, rt.ast),
                       le.pk_cost + rt.pk_cost + 3,
                       (le.sat_cost + le.dissat_cost + rt.sat_cost) \div 2, 0),
                  Cost(Binary("T", "CascadeOr", re.ast, lt.ast),
                       lt.pk_cost + re.pk_cost + 3,
                       (re.sat_cost + re.dissat_cost + lt.sat_cost) \div 2, 0),
                  Cost(Binary("T", "SwitchOr", lt.ast, rt.ast),
                       le.pk_cost + rt.pk_cost + 5,
                       (le.sat_cost + re.sat_cost + 3) \div 2, 0)>>
      [] d.op = "AsymmetricOr" ->
            LET le == from_descriptor("E", left, p, b)
                re == from_descriptor("E", right, P0, b)
                lt == from_descriptor("T", left, P1, b)
                rt == from_descriptor("T", right, P1, b)
            IN  <<le, re, lt, rt,
                  Cost(Binary("T", "CascadeOr", le.ast, rt.ast),
                       le.pk_cost + rt.pk_cost + 3, le.sat_cost, 0),
                  Cost(Binary("T", "CascadeOr", re.ast, lt.ast),
                       lt.pk_cost + re.pk_cost + 3,
                       re.dissat_cost + lt.sat_cost, 0),
                  Cost(Binary("T", "SwitchOr", rt.ast, lt.ast),
                       le.pk_cost + rt.pk_cost + 5, le.sat_cost + 1, 0)>>
      [] OTHER -> <<>>

\* The vector `options` of T::from_descriptor.
T_options(d, p, b) ==
    <<AsT("CastE", from_descriptor("E", d, P1, b)),
      AsT("CastF", from_descriptor("F", d, P1, b))>>
    \o SubSeq(T_more(d, p, b), 5, Len(T_more(d, p, b)))

T_from_descriptor(d, p, b) ==
    IF DebugAssertFails(p, b) THEN Panic("debug_assert")
    ELSE
    CASE d.op \in {"Key", "KeyHash", "Multi"} -> AsT("CastE", from_descriptor("E", d, p, b))
      [] d.op = "Time" -> AsT("CastF", from_descriptor("F", d, p, b))
      [] d.op = "Hash" -> Cost(Leaf("T", "HashEqual", d.n), 27, 33, 0)
      [] d.op \in {"And", "Or", "AsymmetricOr", "Threshold"} ->
            LET options == T_options(d, p, b)
                all == SubSeq(options, 1, 2) \o T_more(d, p, b)
            IN  IF FirstPanic(all).st = "panic" THEN FirstPanic(all)
                ELSE MinByKey(options)
      [] OTHER -> Panic("unreachable")

from_descriptor(ty, d, p, b) ==
    CASE ty = "E" -> E_from_descriptor(d, p, b)
      [] ty = "W" -> W_from_descriptor(d, p, b)
      [] ty = "F" -> F_from_descriptor(d, p, b)
      [] ty = "V" -> V_from_descriptor(d, p, b)
      [] ty = "T" -> T_from_descriptor(d, p, b)

\* ParseTree::compile
ParseTree_compile(d, b) == from_descriptor("T", d, P1, b)

(***************************************************************************)
(* The variant inventory of the five enums, used to build the trees the    *)
(* state machines work on.                                                 *)
(***************************************************************************)
Ctor(ty, op, l, r) == [ty |-> ty, op |-> op, l |-> l, r |-> r]

BinaryCtors ==
    {Ctor("E", "ParallelAnd", "E", "W"), Ctor("E", "CascadeAnd", "E", "F"),
     Ctor("E", "ParallelOr", "E", "W"), Ctor("E", "CascadeOr", "E", "E"),
     Ctor("F", "And", "V", "F"), Ctor("F", "ParallelOr", "E", "W"),
     Ctor("F", "SwitchOr", "F", "F"), Ctor("F", "SwitchOrV", "V", "V"),
     Ctor("F", "CascadeOr", "E", "F"), Ctor("F", "CascadeOrV", "E", "V"),
     Ctor("V", "And", "V", "V"), Ctor("V", "ParallelOr", "E", "W"),
     Ctor("V", "SwitchOr", "V", "V"), Ctor("V", "SwitchOrT", "T", "T"),
     Ctor("V", "CascadeOr", "E", "V"),
     Ctor("T", "And", "V", "T"), Ctor("T", "SwitchOr", "T", "T"),
     Ctor("T", "CascadeOr", "E", "T")}

UnaryCtors ==
    {Ctor("E", "CastF", "F", ""), Ctor("W", "CastE", "E", ""),
     Ctor("T", "CastE", "E", ""), Ctor("T", "CastF", "F", "")}

ThresholdTypes == {"E", "F", "V"}

LeafKeys == {1, 2}
MultiShapes == {<<1, <<1, 2>>>>, <<2, <<2, 1>>>>, <<2, <<1>>>>}
CsvValues == {9, 17}

Leaves(ty) ==
    CASE ty = "E" ->
            {Leaf("E", "CheckSig", k) : k \in LeafKeys}
            \cup {Leaf("E", op, h) : op \in {"CheckSigHash", "CheckSigHashF"}, h \in Hashes160}
            \cup {Multi("E", op, m[1], m[2]) : op \in {"CheckMultiSig", "CheckMultiSigF"},
                                               m \in MultiShapes}
            \cup {Leaf("E", "HashEqual", h) : h \in Sha256s}
      [] ty = "W" ->
            {Leaf("W", "CheckSig", k) : k \in LeafKeys}
            \cup {Leaf("W", "HashEqual", h) : h \in Sha256s}
            \cup {Leaf("W", "Csv", n) : n \in CsvValues}
      [] ty \in {"F", "V"} ->
            {Leaf(ty, "CheckSig", k) : k \in LeafKeys}
            \cup {Leaf(ty, "CheckSigHash", h) : h \in Hashes160}
            \cup {Multi(ty, "CheckMultiSig", m[1], m[2]) : m \in MultiShapes}
            \cup {Leaf(ty, "Csv", n) : n \in CsvValues}
            \cup {Leaf(ty, "HashEqual", h) : h \in Sha256s}
      [] ty = "T" -> {Leaf("T", "HashEqual", h) : h \in Sha256s}

\* One sibling per type, for the other child of a node built around the tree.
Sibling(ty) ==
    CASE ty = "E" -> {Leaf("E", "CheckSig", 2), Leaf("E", "CheckSigHash", 1)}
      [] ty = "W" -> {Leaf("W", "CheckSig", 2), Leaf("W", "Csv", 9)}
      [] ty = "F" -> {Leaf("F", "CheckSig", 2), Leaf("F", "Csv", 9)}
      [] ty = "V" -> {Leaf("V", "CheckSig", 2)}
      [] ty = "T" -> {Leaf("T", "HashEqual", 1), Unary("T", "CastE", Leaf("E", "CheckSig", 2))}

IsTCast(x) == x.ty = "T" /\ x.op \in {"CastE", "CastF"}

RECURSIVE MaxOf(_)
MaxOf(s) == IF s = <<>> THEN 0
            ELSE LET m == MaxOf(Tail(s)) IN IF Head(s) > m THEN Head(s) ELSE m

\* Nodes on the longest path of a tree; the casts to T emit no script and count 0.
RECURSIVE Depth(_)
Depth(x) == (IF IsTCast(x) THEN 0 ELSE 1) + MaxOf([i \in 1..Len(x.subs) |-> Depth(x.subs[i])])

(***************************************************************************)
(* Witnesses.  A witness is a sequence of pushes; a push is kept as what   *)
(* it holds and its length in bytes: a DER signature of a key, a           *)
(* serialized public key (33 bytes), a preimage (32 bytes), or the literal *)
(* byte strings [] and [1].                                                *)
(***************************************************************************)
SigPush(pk, len) == [k |-> "sig", v |-> pk, len |-> len]
PkPush(pk) == [k |-> "pk", v |-> pk, len |-> 33]
PrePush(h) == [k |-> "pre", v |-> h, len |-> 32]
EmptyPush == [k |-> "bytes", v |-> 0, len |-> 0]
OnePush == [k |-> "bytes", v |-> 1, len |-> 1]

NoErr == [e |-> "", v |-> 0]
Err(e, v) == [ok |-> FALSE, wit |-> <<>>, err |-> [e |-> e, v |-> v]]
Ok(w) == [ok |-> TRUE, wit |-> w, err |-> NoErr]

\* The maps handed to satisfy: key_map as the length of the signature held
\* for a key (0: no entry), pkh_map as the key held for a hash (0: no entry),
\* hash_map as the set of hashes with a preimage, and age.
HasSig(m, pk) == m.keys[pk] # 0
HasPk(m, h) == m.pkhs[h] # 0

satisfy_cost(w) == SumSeq([i \in 1..Len(w) |-> 1 + w[i].len])

satisfy_checksig(pk, m) ==
    IF HasSig(m, pk) THEN Ok(<<SigPush(pk, m.keys[pk])>>)
    ELSE Err("MissingSig", pk)

satisfy_checksighash(hash, m) ==
    IF HasPk(m, hash)
    THEN LET pk == m.pkhs[hash] IN
         IF HasSig(m, pk) THEN Ok(<<SigPush(pk, m.keys[pk]), PkPush(pk)>>)
         ELSE Err("MissingSig", pk)
    ELSE Err("MissingPubkey", hash)

\* A variant of MaxIdx that picks a shortest element (C8's formula must notice).
MinIdx(ret) ==
    CHOOSE i \in 1..Len(ret) : \A j \in 1..Len(ret) : ret[i].len <= ret[j].len

\* Iterator::max_by_key returns the last of several equally long elements.
MaxIdx(ret) ==
    CHOOSE i \in 1..Len(ret) :
        /\ \A j \in 1..Len(ret) : ret[j].len <= ret[i].len
        /\ \A j \in (i + 1)..Len(ret) : ret[j].len < ret[i].len

RemoveAt(s, i) == SubSeq(s, 1, i - 1) \o SubSeq(s, i + 1, Len(s))

\* The vector ret of satisfy_checkmultisig after the loop over keys.
RECURSIVE MultiSigLoop(_, _, _)
MultiSigLoop(k, keys, m) ==
    IF keys = <<>> THEN <<>>
    ELSE LET ret == MultiSigLoop(k, Front(keys), m)
             pk == Last(keys)
         IN  IF HasSig(m, pk)
             THEN LET pushed == Append(ret, SigPush(pk, m.keys[pk])) IN
                  IF Len(pushed) > k THEN RemoveAt(pushed, MaxIdx(pushed)) ELSE pushed
             ELSE ret

satisfy_checkmultisig(k, keys, m) ==
    LET ret == MultiSigLoop(k, keys, m) IN
    IF Len(ret) = k THEN Ok(Append(ret, EmptyPush))
    ELSE Err("CouldNotSatisfy", 0)

\* A variant of satisfy_hashequal whose error names no hash of the tree
\* (C5's formula must notice).
satisfy_hashequal_other(hash, m) ==
    IF hash \in m.hashes THEN Ok(<<PrePush(hash)>>)
    ELSE Err("MissingHash", hash + 1)

satisfy_hashequal(hash, m) ==
    IF hash \in m.hashes THEN Ok(<<PrePush(hash)>>)
    ELSE Err("MissingHash", hash)

satisfy_csv_before(n, age) ==
    IF age <= n THEN Ok(<<>>) ELSE Err("LocktimeNotMet", n)

satisfy_csv(n, age) ==
    IF age >= n THEN Ok(<<>>) ELSE Err("LocktimeNotMet", n)

\* slice::sort_by_key is stable: equal costs keep their order.
RECURSIVE SortByCost(_)
SortByCost(sats) ==
    IF sats = <<>> THEN <<>>
    ELSE LET sorted == SortByCost(Front(sats))
             x == Last(sats)
             n == Cardinality({i \in 1..Len(sorted) : satisfy_cost(sorted[i]) <= satisfy_cost(x)})
         IN  SubSeq(sorted, 1, n) \o <<x>> \o SubSeq(sorted, n + 1, Len(sorted))

\* The satisfactions vector of satisfy_threshold: the Ok results, in child order.
OkWitnesses(results) ==
    LET acc[i \in 0..Len(results)] ==
            IF i = 0 THEN <<>>
            ELSE IF results[i].ok THEN Append(acc[i - 1], results[i].wit) ELSE acc[i - 1]
    IN  acc[Len(results)]

RECURSIVE satisfy(_, _), dissatisfy(_, _)

satisfy_threshold(k, children, m) ==
    IF k = 0 THEN Ok(<<>>)
    ELSE LET satisfactions == OkWitnesses([i \in 1..Len(children) |-> satisfy(children[i], m)])
         IN  IF Len(satisfactions) < k THEN Err("CouldNotSatisfy", 0)
             ELSE Ok(Flatten(SubSeq(SortByCost(satisfactions), 1, k)))

\* A variant of satisfy_parallel_or that breaks a tie to the right (C9's
\* formula must notice).
satisfy_parallel_or_right(left, right, m) ==
    LET l == satisfy(left, m)
        r == satisfy(right, m)
        ld == dissatisfy(left, m)
        rd == dissatisfy(right, m)
    IN  CASE l.ok /\ ~r.ok -> IF rd.ok THEN Ok(l.wit \o rd.wit) ELSE rd
          [] ~l.ok /\ r.ok -> IF ld.ok THEN Ok(ld.wit \o r.wit) ELSE ld
          [] ~l.ok /\ ~r.ok -> l
          [] l.ok /\ r.ok ->
                IF ~ld.ok THEN ld
                ELSE IF ~rd.ok THEN rd
                ELSE IF satisfy_cost(l.wit) + satisfy_cost(rd.wit)
                            < satisfy_cost(r.wit) + satisfy_cost(ld.wit)
                     THEN Ok(l.wit \o rd.wit)
                     ELSE Ok(ld.wit \o r.wit)

satisfy_parallel_or(left, right, m) ==
    LET l == satisfy(left, m)
        r == satisfy(right, m)
        ld == dissatisfy(left, m)
        rd == dissatisfy(right, m)
    IN  CASE l.ok /\ ~r.ok -> IF rd.ok THEN Ok(l.wit \o rd.wit) ELSE rd
          [] ~l.ok /\ r.ok -> IF ld.ok THEN Ok(ld.wit \o r.wit) ELSE ld
          [] ~l.ok /\ ~r.ok -> l
          [] l.ok /\ r.ok ->
                IF ~ld.ok THEN ld
                ELSE IF ~rd.ok THEN rd
                ELSE IF satisfy_cost(l.wit) + satisfy_cost(rd.wit)
                            <= satisfy_cost(r.wit) + satisfy_cost(ld.wit)
                     THEN Ok(l.wit \o rd.wit)
                     ELSE Ok(ld.wit \o r.wit)

\* A variant of satisfy_switch_or that breaks a tie to the right (C10's
\* formula must notice).
satisfy_switch_or_right(left, right, m) ==
    LET l == satisfy(left, m)
        r == satisfy(right, m)
    IN  CASE ~l.ok /\ ~r.ok -> l
          [] l.ok /\ ~r.ok -> Ok(Append(l.wit, OnePush))
          [] ~l.ok /\ r.ok -> Ok(Append(r.wit, EmptyPush))
          [] l.ok /\ r.ok ->
                IF satisfy_cost(l.wit) + 2 < satisfy_cost(r.wit) + 1
                THEN Ok(Append(l.wit, OnePush))
                ELSE Ok(Append(r.wit, EmptyPush))

satisfy_switch_or(left, right, m) ==
    LET l == satisfy(left, m)
        r == satisfy(right, m)
    IN  CASE ~l.ok /\ ~r.ok -> l
          [] l.ok /\ ~r.ok -> Ok(Append(l.wit, OnePush))
          [] ~l.ok /\ r.ok -> Ok(Append(r.wit, EmptyPush))
          [] l.ok /\ r.ok ->
                IF satisfy_cost(l.wit) + 2 <= satisfy_cost(r.wit) + 1
                THEN Ok(Append(l.wit, OnePush))
                ELSE Ok(Append(r.wit, EmptyPush))

satisfy_cascade_or(left, right, m) ==
    LET l == satisfy(left, m)
        r == satisfy(right, m)
        ld == dissatisfy(left, m)
    IN  CASE ~l.ok /\ ~r.ok -> l
          [] l.ok /\ ~r.ok -> l
          [] ~l.ok /\ r.ok -> IF ld.ok THEN Ok(ld.wit \o r.wit) ELSE ld
          [] l.ok /\ r.ok ->
                IF ~ld.ok THEN ld
                ELSE IF satisfy_cost(l.wit) <= satisfy_cost(r.wit) + satisfy_cost(ld.wit)
                     THEN l
                     ELSE Ok(ld.wit \o r.wit)

\* A variant of SatisfyBoth that puts the right satisfaction first (C12's
\* formula must notice).
SatisfyBoth_right_first(left, right, m) ==
    LET l == satisfy(left, m) IN
    IF ~l.ok THEN l
    ELSE LET r == satisfy(right, m) IN
         IF ~r.ok THEN r ELSE Ok(r.wit \o l.wit)

\* `left.satisfy(..)?` extended by `right.satisfy(..)?`
SatisfyBoth(left, right, m) ==
    LET l == satisfy(left, m) IN
    IF ~l.ok THEN l
    ELSE LET r == satisfy(right, m) IN
         IF ~r.ok THEN r ELSE Ok(l.wit \o r.wit)

E_satisfy(x, m) ==
    CASE x.op = "CheckSig" -> satisfy_checksig(x.n, m)
      [] x.op \in {"CheckSigHash", "CheckSigHashF"} -> satisfy_checksighash(x.n, m)
      [] x.op \in {"CheckMultiSig", "CheckMultiSigF"} -> satisfy_checkmultisig(x.n, x.ks, m)
      [] x.op = "HashEqual" -> satisfy_hashequal(x.n, m)
      [] x.op = "Threshold" -> satisfy_threshold(x.n, x.subs, m)
      [] x.op \in {"ParallelAnd", "CascadeAnd"} -> SatisfyBoth(x.subs[1], x.subs[2], m)
      [] x.op = "ParallelOr" -> satisfy_parallel_or(x.subs[1], x.subs[2], m)
      [] x.op = "CascadeOr" -> satisfy_cascade_or(x.subs[1], x.subs[2], m)
      [] x.op = "CastF" ->
            LET fsat == satisfy(x.subs[1], m) IN
            IF fsat.ok THEN Ok(Append(fsat.wit, OnePush)) ELSE fsat

W_satisfy(x, m) ==
    CASE x.op = "CheckSig" -> satisfy_checksig(x.n, m)
      [] x.op = "HashEqual" -> satisfy_hashequal(x.n, m)
      [] x.op = "Csv" ->
            LET r == satisfy_csv(x.n, m.age) IN IF r.ok THEN Ok(<<OnePush>>) ELSE r
      [] x.op = "CastE" -> satisfy(x.subs[1], m)

F_satisfy(x, m) ==
    CASE x.op = "CheckSig" -> satisfy_checksig(x.n, m)
      [] x.op = "CheckMultiSig" -> satisfy_checkmultisig(x.n, x.ks, m)
      [] x.op = "CheckSigHash" -> satisfy_checksighash(x.n, m)
      [] x.op = "Csv" -> satisfy_csv(x.n, m.age)
      [] x.op = "HashEqual" -> satisfy_hashequal(x.n, m)
      [] x.op = "Threshold" -> satisfy_threshold(x.n, x.subs, m)
      [] x.op = "And" -> SatisfyBoth(x.subs[1], x.subs[2], m)
      [] x.op = "ParallelOr" -> satisfy_parallel_or(x.subs[1], x.subs[2], m)
      [] x.op \in {"SwitchOr", "SwitchOrV"} -> satisfy_switch_or(x.subs[1], x.subs[2], m)
      [] x.op \in {"CascadeOr", "CascadeOrV"} -> satisfy_cascade_or(x.subs[1], x.subs[2], m)

V_satisfy(x, m) ==
    CASE x.op = "CheckSig" -> satisfy_checksig(x.n, m)
      [] x.op = "CheckMultiSig" -> satisfy_checkmultisig(x.n, x.ks, m)
      [] x.op = "CheckSigHash" -> satisfy_checksighash(x.n, m)
      [] x.op = "Csv" -> satisfy_csv(x.n, m.age)
      [] x.op = "HashEqual" -> satisfy_hashequal(x.n, m)
      [] x.op = "Threshold" -> satisfy_threshold(x.n, x.subs, m)
      [] x.op = "And" -> SatisfyBoth(x.subs[1], x.subs[2], m)
      [] x.op = "ParallelOr" -> satisfy_parallel_or(x.subs[1], x.subs[2], m)
      [] x.op \in {"SwitchOr", "SwitchOrT"} -> satisfy_switch_or(x.subs[1], x.subs[2], m)
      [] x.op = "CascadeOr" -> satisfy_cascade_or(x.subs[1], x.subs[2], m)

T_satisfy(x, m) ==
    CASE x.op = "HashEqual" -> satisfy_hashequal(x.n, m)
      [] x.op = "And" -> SatisfyBoth(x.subs[1], x.subs[2], m)
      [] x.op = "SwitchOr" -> satisfy_switch_or(x.subs[1], x.subs[2], m)
      [] x.op \in {"CastE", "CastF"} -> satisfy(x.subs[1], m)
      [] x.op = "CascadeOr" -> satisfy_cascade_or(x.subs[1], x.subs[2], m)

\* AstElem::satisfy, dispatched on the type of the node.
satisfy(x, m) ==
    CASE x.ty = "E" -> E_satisfy(x, m)
      [] x.ty = "W" -> W_satisfy(x, m)
      [] x.ty = "F" -> F_satisfy(x, m)
      [] x.ty = "V" -> V_satisfy(x, m)
      [] x.ty = "T" -> T_satisfy(x, m)

\* The dissatisfactions of a list of children joined, or the first error.
RECURSIVE DissatisfyAll(_, _)
DissatisfyAll(children, m) ==
    IF children = <<>> THEN Ok(<<>>)
    ELSE LET h == dissatisfy(Head(children), m) IN
         IF ~h.ok THEN h
         ELSE LET t == DissatisfyAll(Tail(children), m) IN
              IF ~t.ok THEN t ELSE Ok(h.wit \o t.wit)

E_dissatisfy(x, m) ==
    CASE x.op = "CheckSig" -> Ok(<<EmptyPush>>)
      [] x.op \in {"CheckSigHash", "CheckSigHashF"} ->
            IF HasPk(m, x.n) THEN Ok(<<EmptyPush, PkPush(m.pkhs[x.n])>>)
            ELSE Err("MissingPubkey", x.n)
      [] x.op \in {"CheckMultiSig", "CheckMultiSigF"} -> Ok([i \in 1..(x.n + 1) |-> EmptyPush])
      [] x.op = "HashEqual" -> Ok(<<EmptyPush>>)
      [] x.op \in {"Threshold", "ParallelAnd", "CascadeOr", "ParallelOr"} ->
            DissatisfyAll(x.subs, m)
      [] x.op = "CascadeAnd" -> dissatisfy(x.subs[1], m)
      [] x.op = "CastF" -> Ok(<<>>)

W_dissatisfy(x, m) ==
    CASE x.op \in {"CheckSig", "HashEqual", "Csv"} -> Ok(<<>>)
      [] x.op = "CastE" -> dissatisfy(x.subs[1], m)

dissatisfy(x, m) ==
    CASE x.ty = "E" -> E_dissatisfy(x, m)
      [] x.ty = "W" -> W_dissatisfy(x, m)

\* required_keys of the five types: the keys of the sign-check variants, in
\* the order of the children.
RECURSIVE required_keys(_)

\* A variant of required_keys that leaves out the keys of CheckSig nodes
\* (C6's formula must notice).
required_keys_no_checksig(x) ==
    CASE x.op = "CheckSig" -> <<>>
      [] x.op \in {"CheckMultiSig", "CheckMultiSigF"} -> x.ks
      [] x.op \in {"CheckSigHash", "CheckSigHashF", "HashEqual", "Csv"} -> <<>>
      [] OTHER -> Flatten([i \in 1..Len(x.subs) |-> required_keys(x.subs[i])])

required_keys_right_first(x) ==
    CASE x.op = "CheckSig" -> <<x.n>>
      [] x.op \in {"CheckMultiSig", "CheckMultiSigF"} -> x.ks
      [] x.op \in {"CheckSigHash", "CheckSigHashF", "HashEqual", "Csv"} -> <<>>
      [] OTHER -> Flatten([i \in 1..Len(x.subs) |->
                              required_keys(x.subs[Len(x.subs) + 1 - i])])

required_keys(x) ==
    CASE x.op = "CheckSig" -> <<x.n>>
      [] x.op \in {"CheckMultiSig", "CheckMultiSigF"} -> x.ks
      [] x.op \in {"CheckSigHash", "CheckSigHashF", "HashEqual", "Csv"} -> <<>>
      [] OTHER -> Flatten([i \in 1..Len(x.subs) |-> required_keys(x.subs[i])])

ParseTree_satisfy(t, m) == satisfy(t, m)
ParseTree_required_keys(t) == required_keys(t)

(***************************************************************************)
(* The state before any operation has run, and the growing of a tree from  *)
(* a leaf, one enclosing variant at a time.                                *)
(***************************************************************************)
NoParse == [ok |-> FALSE, tree |-> NoNode, err |-> ""]
NoEnv == [keys |-> [k \in Keys |-> 0], pkhs |-> [h \in Hashes160 |-> 0], hashes |-> {}, age |-> 0]
NoSat == [ok |-> FALSE, wit |-> <<>>, err |-> NoErr]
NoLex == [ok |-> FALSE, toks |-> <<>>, err |-> ""]
NoComp ==
    [build |-> "", ty |-> "", p |-> <<0, 1>>, st |-> "none", why |-> "", ast |-> NoNode,
     pk_cost |-> 0, sat_cost |-> 0, dissat_cost |-> 0]

InitFrom(trees) ==
    /\ tree \in trees
    /\ script = <<>>
    /\ parsed = NoParse
    /\ reser = <<>>
    /\ env = NoEnv
    /\ sat = NoSat
    /\ rkeys = <<>>
    /\ desc = NoNode
    /\ comp = NoComp
    /\ tokens = <<>>
    /\ lexed = NoLex
    /\ pc = "tree"

AllLeaves == UNION {Leaves(ty) : ty \in {"E", "W", "F", "V", "T"}}

\* tree becomes one child of a two-child variant.
WrapBinary(maxd) ==
    /\ pc = "tree"
    /\ Depth(tree) < maxd
    /\ \E c \in BinaryCtors :
          \/ /\ tree.ty = c.l
             /\ \E r \in Sibling(c.r) : tree' = Binary(c.ty, c.op, tree, r)
          \/ /\ tree.ty = c.r
             /\ \E l \in Sibling(c.l) : tree' = Binary(c.ty, c.op, l, tree)
    /\ UNCHANGED <<script, parsed, reser, env, sat, rkeys, desc, comp, tokens, lexed, pc>>

\* tree becomes the child of a cast.
WrapUnary(maxd) ==
    /\ pc = "tree"
    /\ \E c \in UnaryCtors :
          /\ tree.ty = c.l
          /\ c.ty = "T" \/ Depth(tree) < maxd
          /\ tree' = Unary(c.ty, c.op, tree)
    /\ UNCHANGED <<script, parsed, reser, env, sat, rkeys, desc, comp, tokens, lexed, pc>>

MaxK == 2

\* tree becomes the first or a later child of a Threshold.
WrapThreshold(maxd) ==
    /\ pc = "tree"
    /\ Depth(tree) < maxd
    /\ \E ty \in ThresholdTypes, k \in 0..MaxK :
          \/ /\ tree.ty = "E"
             /\ \E ws \in {<<>>} \cup {<<w>> : w \in Sibling("W")} :
                   tree' = Thresh(ty, k, tree, ws)
          \/ /\ tree.ty = "W"
             /\ \E e \in Sibling("E"), ws \in {<<tree>>, <<Leaf("W", "Csv", 9), tree>>} :
                   tree' = Thresh(ty, k, e, ws)
    /\ UNCHANGED <<script, parsed, reser, env, sat, rkeys, desc, comp, tokens, lexed, pc>>

(***************************************************************************)
(* Round trip state machine: a tree is grown, serialized, the script is    *)
(* parsed and the parsed tree is serialized again.  A serialized script    *)
(* may have one instruction replaced before it is parsed, which reaches    *)
(* scripts the serializer never emits.                                     *)
(***************************************************************************)
InitRT == InitFrom(AllLeaves)

RestRT == UNCHANGED <<env, sat, rkeys, desc, comp, tokens, lexed>>

\* ParseTree::serialize
Serialize ==
    /\ pc = "tree"
    /\ tree.ty = "T"
    /\ script' = ParseTree_serialize(tree)
    /\ pc' = "script"
    /\ UNCHANGED <<tree, parsed, reser>>
    /\ RestRT

MutDepth == 1
MutOps == {"OP_EQUAL", "OP_EQUALVERIFY", "OP_CHECKSIG", "OP_CHECKSIGVERIFY", "OP_ADD"}

\* One instruction of the script is replaced by another opcode.
Mutate ==
    /\ pc = "script"
    /\ Depth(tree) <= MutDepth
    /\ \E i \in 1..Len(script), o \in MutOps :
          /\ script[i] # Op(o)
          /\ script' = [script EXCEPT ![i] = Op(o)]
    /\ pc' = "fuzzed"
    /\ UNCHANGED <<tree, parsed, reser>>
    /\ RestRT

\* ParseTree::parse
Parse ==
    /\ pc \in {"script", "fuzzed"}
    /\ parsed' = ParseTree_parse(script)
    /\ pc' = IF pc = "script" THEN "parsed" ELSE "parsed_fuzzed"
    /\ UNCHANGED <<tree, script, reser>>
    /\ RestRT

\* ParseTree::serialize of the tree that parse returned
Reserialize ==
    /\ pc \in {"parsed", "parsed_fuzzed"}
    /\ parsed.ok
    /\ reser' = ParseTree_serialize(parsed.tree)
    /\ pc' = IF pc = "parsed" THEN "reser" ELSE "reser_fuzzed"
    /\ UNCHANGED <<tree, script, parsed>>
    /\ RestRT

NextRT ==
    \/ WrapBinary(MaxDepth)
    \/ WrapUnary(MaxDepth)
    \/ WrapThreshold(MaxDepth)
    \/ Serialize
    \/ Mutate
    \/ Parse
    \/ Reserialize

SpecRT == InitRT /\ [][NextRT]_vars

(***************************************************************************)
(* Satisfaction state machine: a tree is grown, satisfied against maps the *)
(* caller supplies, and its required keys are listed.                      *)
(***************************************************************************)
SatDepth == 2
SigLens == {71, 72}
Ages == {0, 10}

Envs(keyset, lens) ==
    {[keys |-> ks, pkhs |-> ph, hashes |-> hs, age |-> a] :
        ks \in {f \in [Keys -> {0} \cup lens] : \A k \in Keys \ keyset : f[k] = 0},
        ph \in [Hashes160 -> {0, 1}],
        hs \in SUBSET Sha256s,
        a \in Ages}

\* ParseTree::satisfy
Satisfy(envs) ==
    /\ pc = "tree"
    /\ tree.ty = "T"
    /\ \E m \in envs :
          /\ env' = m
          /\ sat' = ParseTree_satisfy(tree, m)
    /\ pc' = "sat"
    /\ UNCHANGED <<tree, script, parsed, reser, rkeys, desc, comp, tokens, lexed>>

\* ParseTree::required_keys
RequiredKeys ==
    /\ pc = "sat"
    /\ sat.ok
    /\ rkeys' = ParseTree_required_keys(tree)
    /\ pc' = "keys"
    /\ UNCHANGED <<tree, script, parsed, reser, env, sat, desc, comp, tokens, lexed>>

InitSat == InitFrom(AllLeaves)

NextSat ==
    \/ WrapBinary(SatDepth)
    \/ WrapUnary(SatDepth)
    \/ WrapThreshold(SatDepth)
    \/ Satisfy(Envs(LeafKeys, SigLens))
    \/ RequiredKeys

SpecSat == InitSat /\ [][NextSat]_vars

(***************************************************************************)
(* satisfy_checkmultisig on its own: every k, key list and set of          *)
(* signatures within the bounds.                                           *)
(***************************************************************************)
MaxMultiK == 3
MaxMultiLen == 3
MultiLens == {70, 71, 72}

KeyLists == UNION {[1..n -> Keys] : n \in 0..MaxMultiLen}

InitMulti ==
    InitFrom({Unary("T", "CastE", Multi("E", "CheckMultiSig", k, ks)) :
                 k \in 0..MaxMultiK, ks \in KeyLists})

NextMulti == Satisfy(Envs(Keys, MultiLens))

SpecMulti == InitMulti /\ [][NextMulti]_vars

(***************************************************************************)
(* Compilation state machine: a descriptor is grown from a leaf and        *)
(* compiled, by a debug or by a release build.                             *)
(***************************************************************************)
CompDepth == 2
Builds == {"debug", "release"}

DKey(pk) == Leaf("D", "Key", pk)
DKeyHash(pk) == Leaf("D", "KeyHash", pk)
DMulti(k, ks) == Multi("D", "Multi", k, ks)
DTime(n) == Leaf("D", "Time", n)
DHash(h) == Leaf("D", "Hash", h)
DThreshold(k, subs) == Node("D", "Threshold", k, <<>>, subs)
DBinary(op, l, r) == Binary("D", op, l, r)

DescLeaves ==
    {DKey(pk) : pk \in LeafKeys} \cup {DKeyHash(1), DTime(9), DHash(1)}
        \cup {DMulti(ms[1], ms[2]) : ms \in MultiShapes}
DescSiblings == {DKey(2), DTime(9), DHash(1)}
DescBinaryOps == {"And", "Or", "AsymmetricOr"}

RECURSIVE DescDepth(_)
DescDepth(d) ==
    IF d.subs = <<>> THEN 0
    ELSE 1 + MaxOf([i \in 1..Len(d.subs) |-> DescDepth(d.subs[i])])

InitCompile ==
    /\ tree = NoNode
    /\ script = <<>>
    /\ parsed = NoParse
    /\ reser = <<>>
    /\ env = NoEnv
    /\ sat = NoSat
    /\ rkeys = <<>>
    /\ desc \in DescLeaves \cup {DThreshold(k, <<>>) : k \in 0..MaxK}
    /\ comp = NoComp
    /\ tokens = <<>>
    /\ lexed = NoLex
    /\ pc = "desc"

RestCompile == UNCHANGED <<tree, script, parsed, reser, env, sat, rkeys, tokens, lexed>>

\* desc becomes one child of an And, Or or AsymmetricOr.
WrapDescBinary ==
    /\ pc = "desc"
    /\ DescDepth(desc) < CompDepth
    /\ \E op \in DescBinaryOps, o \in DescSiblings :
          desc' \in {DBinary(op, desc, o), DBinary(op, o, desc)}
    /\ UNCHANGED <<comp, pc>>
    /\ RestCompile

\* desc becomes the first or the second sub-descriptor of a Threshold.
WrapDescThreshold ==
    /\ pc = "desc"
    /\ DescDepth(desc) < CompDepth
    /\ \E k \in 0..MaxK, o \in DescSiblings :
          desc' \in {DThreshold(k, <<desc>>), DThreshold(k, <<desc, o>>),
                     DThreshold(k, <<o, desc>>)}
    /\ UNCHANGED <<comp, pc>>
    /\ RestCompile

\* The Cost a compilation at type ty with probability p returned, or its panic.
Compiled(b, ty, p, c) ==
    [build |-> b, ty |-> ty, p |-> p, st |-> c.st, why |-> c.why, ast |-> c.ast,
     pk_cost |-> c.pk_cost, sat_cost |-> c.sat_cost, dissat_cost |-> c.dissat_cost]

\* ParseTree::compile
Compile ==
    /\ pc = "desc"
    /\ \E b \in Builds : comp' = Compiled(b, "T", P1, ParseTree_compile(desc, b))
    /\ pc' = "compiled"
    /\ UNCHANGED desc
    /\ RestCompile

NextCompile ==
    \/ WrapDescBinary
    \/ WrapDescThreshold
    \/ Compile

SpecCompile == InitCompile /\ [][NextCompile]_vars

(***************************************************************************)
(* Cost state machine: a descriptor is grown as above and handed to the    *)
(* from_descriptor of one of the five types with a probability.            *)
(***************************************************************************)
Types == {"E", "W", "F", "V", "T"}
Probs == {P1, <<1, 2>>, P0}

\* X::from_descriptor(desc, p)
CompileAs ==
    /\ pc = "desc"
    /\ \E b \in Builds, ty \in Types, p \in Probs :
          comp' = Compiled(b, ty, p, from_descriptor(ty, desc, p, b))
    /\ pc' = "cost"
    /\ UNCHANGED desc
    /\ RestCompile

NextCost ==
    \/ WrapDescBinary
    \/ WrapDescThreshold
    \/ CompileAs

SpecCost == InitCompile /\ [][NextCost]_vars

(***************************************************************************)
(* Satisfaction of nested alternatives: the tree is grown around an E node *)
(* that can be satisfied through one child while the key hash of its other *)
(* child has no entry in pkhs, so that it cannot be dissatisfied.          *)
(***************************************************************************)
OrDepth == 3

OrSeeds ==
    {Binary("E", "CascadeOr", a, Leaf("E", "CheckSigHash", 1)) :
        a \in {Leaf("E", "CheckSig", 1), Leaf("E", "HashEqual", 1)}}
    \cup {Binary("E", "CascadeOr", Leaf("E", "CheckSigHash", 1), Leaf("E", "CheckSig", 1)),
          Binary("E", "CascadeOr", Leaf("E", "CheckSig", 1), Leaf("E", "CheckSig", 2))}

InitOr == InitFrom(OrSeeds)

NextOr ==
    \/ WrapBinary(OrDepth)
    \/ WrapUnary(OrDepth)
    \/ WrapThreshold(OrDepth)
    \/ Satisfy(Envs(LeafKeys, SigLens))
    \/ RequiredKeys

SpecOr == InitOr /\ [][NextOr]_vars

(***************************************************************************)
(* Satisfaction of conjunctions: the tree is grown around one conjunction  *)
(* node of each type, or is the F::SwitchOrV of a key and a V::And of two  *)
(* keys, and is satisfied with any of the keys signed.                     *)
(***************************************************************************)
AndDepth == 3

SwitchOrVOfAnd ==
    Binary("F", "SwitchOrV", Leaf("V", "CheckSig", 1),
           Binary("V", "And", Leaf("V", "CheckSig", 2), Leaf("V", "CheckSig", 3)))

AndSeeds ==
    {Binary("V", "And", Leaf("V", "CheckSig", 1), b) :
        b \in {Leaf("V", "CheckSig", 3), Leaf("V", "HashEqual", 1)}}
    \cup {Binary("E", "ParallelAnd", Leaf("E", "CheckSig", 1), Leaf("W", "CheckSig", 3)),
          Binary("E", "CascadeAnd", Leaf("E", "CheckSig", 1), Leaf("F", "HashEqual", 1)),
          Binary("F", "And", Leaf("V", "CheckSig", 3), Leaf("F", "CheckSig", 1)),
          SwitchOrVOfAnd}

InitAnd == InitFrom(AndSeeds)

NextAnd ==
    \/ WrapBinary(AndDepth)
    \/ WrapUnary(AndDepth)
    \/ WrapThreshold(AndDepth)
    \/ Satisfy(Envs(Keys, SigLens))
    \/ RequiredKeys

SpecAnd == InitAnd /\ [][NextAnd]_vars

(***************************************************************************)
(* Push state machine: a small tree is serialized, one instruction of the  *)
(* script is replaced by a data push of arbitrary bytes, and the script is *)
(* parsed.                                                                 *)
(***************************************************************************)
LexDepth == 1
MaxPushLen == 3
PushByteValues == {0, 1, 16, 17, 128, 255}

RECURSIVE ByteStrings(_)
ByteStrings(n) ==
    IF n = 0 THEN {<<>>}
    ELSE LET shorter == ByteStrings(n - 1) IN
         shorter \cup {Append(b, v) : b \in {x \in shorter : Len(x) = n - 1},
                                      v \in PushByteValues}

\* The pushed data: every short byte string, and two of five bytes, which
\* read_scriptint refuses.
PushData == ByteStrings(MaxPushLen) \cup {<<1, 0, 0, 0, 0>>, <<0, 0, 0, 0, 128>>}

InitLex == InitFrom(AllLeaves)

\* One instruction of the script is replaced by a data push.
ReplaceByPush ==
    /\ pc = "script"
    /\ \E i \in 1..Len(script), bytes \in PushData :
          /\ script[i] # Push(bytes)
          /\ script' = [script EXCEPT ![i] = Push(bytes)]
    /\ pc' = "fuzzed"
    /\ UNCHANGED <<tree, parsed, reser>>
    /\ RestRT

NextLex ==
    \/ WrapUnary(LexDepth)
    \/ Serialize
    \/ ReplaceByPush
    \/ Parse

SpecLex == InitLex /\ [][NextLex]_vars

(***************************************************************************)
(* Token state machine: a token sequence is built token by token; it is    *)
(* handed to the parser as the token iterator, or every token is           *)
(* serialized and the script, in which an opcode that has no token may     *)
(* take the place of an instruction, is lexed.                             *)
(***************************************************************************)
MaxTokens == 3
TokenNumbers == {0, 1, 2, 32}
TokenAlphabet ==
    {TOp(t) : t \in OpTokens} \cup {Number(n) : n \in TokenNumbers}
        \cup {Tok("Hash160Hash", 1), Tok("Sha256Hash", 1), Tok("Pubkey", 1)}
OtherOpcodes == {"OP_NOP", "OP_RETURN", "OP_PUSHNUM_NEG1"}

InitTok ==
    /\ tree = NoNode
    /\ script = <<>>
    /\ parsed = NoParse
    /\ reser = <<>>
    /\ env = NoEnv
    /\ sat = NoSat
    /\ rkeys = <<>>
    /\ desc = NoNode
    /\ comp = NoComp
    /\ tokens = <<>>
    /\ lexed = NoLex
    /\ pc = "tokens"

RestTok == UNCHANGED <<tree, reser, env, sat, rkeys, desc, comp>>

\* One more token at the end of the sequence.
AppendToken ==
    /\ pc = "tokens"
    /\ Len(tokens) < MaxTokens
    /\ \E t \in TokenAlphabet : tokens' = Append(tokens, t)
    /\ UNCHANGED <<script, parsed, lexed, pc>>
    /\ RestTok

\* Token::serialize of every token, in order, into one script
SerializeTokens ==
    /\ pc = "tokens"
    /\ script' = [i \in 1..Len(tokens) |-> TokenSerialize(tokens[i])]
    /\ pc' = "tokscript"
    /\ UNCHANGED <<tokens, parsed, lexed>>
    /\ RestTok

\* One instruction of a short script is replaced by an opcode without a token.
ReplaceByOpcode ==
    /\ pc = "tokscript"
    /\ Len(script) < MaxTokens
    /\ \E i \in 1..Len(script), o \in OtherOpcodes :
          script' = [script EXCEPT ![i] = Op(o)]
    /\ pc' = "opscript"
    /\ UNCHANGED <<tokens, parsed, lexed>>
    /\ RestTok

\* lex
Lex ==
    /\ pc \in {"tokscript", "opscript"}
    /\ lexed' = lex(script)
    /\ pc' = IF pc = "tokscript" THEN "lexed" ELSE "lexed_op"
    /\ UNCHANGED <<tokens, script, parsed>>
    /\ RestTok

\* ParseTree::parse on the token iterator over tokens
ParseTokenSeq ==
    /\ pc = "tokens"
    /\ parsed' = ParseTokens(tokens)
    /\ pc' = "tokparsed"
    /\ UNCHANGED <<tokens, script, lexed>>
    /\ RestTok

NextTok ==
    \/ AppendToken
    \/ SerializeTokens
    \/ ReplaceByOpcode
    \/ Lex
    \/ ParseTokenSeq

SpecTok == InitTok /\ [][NextTok]_vars

(***************************************************************************)
(* Number state machine: an F::Csv(n) of any u32 n is serialized and the   *)
(* script is lexed.  n is held as its two 16-bit halves, n = hi * 2^16 +   *)
(* lo, so that the values from 2^31 on can be written.                     *)
(***************************************************************************)
Halves == {0, 1, 16, 17, 127, 128, 255, 256, 32767, 32768, 65535}

U32(hi, lo) == [hi |-> hi, lo |-> lo]
WideOf(v) == U32(v \div 65536, v % 65536)
WideCsv(hi, lo) == Node("F", "Csv", U32(hi, lo), <<>>, <<>>)

\* build_scriptint of hi * 2^16 + lo: the two low bytes, then those of hi.
build_scriptint_wide(w) ==
    IF w.hi = 0 THEN build_scriptint(w.lo)
    ELSE <<w.lo % 256, w.lo \div 256>> \o LeBytes(w.hi)

\* Builder::push_int(n as i64) for n = hi * 2^16 + lo
push_int_wide(w) ==
    IF w.hi = 0 /\ w.lo >= 1 /\ w.lo <= 16 THEN PushNum(w.lo)
    ELSE IF w.hi = 0 /\ w.lo = 0 THEN Push(<<>>)
    ELSE Push(build_scriptint_wide(w))

InitNum ==
    /\ tree \in {WideCsv(hi, lo) : hi, lo \in Halves}
    /\ script = <<>>
    /\ parsed = NoParse
    /\ reser = <<>>
    /\ env = NoEnv
    /\ sat = NoSat
    /\ rkeys = <<>>
    /\ desc = NoNode
    /\ comp = NoComp
    /\ tokens = <<>>
    /\ lexed = NoLex
    /\ pc = "num"

\* F::serialize of the F::Csv(n)
SerializeCsv ==
    /\ pc = "num"
    /\ script' = <<push_int_wide(tree.n), Op("OP_CSV")>>
    /\ pc' = "numscript"
    /\ UNCHANGED <<tokens, parsed, lexed>>
    /\ RestTok

\* lex of the serialized F::Csv(n)
LexCsv ==
    /\ pc = "numscript"
    /\ lexed' = lex(script)
    /\ pc' = "lexed_num"
    /\ UNCHANGED <<tokens, script, parsed>>
    /\ RestTok

NextNum ==
    \/ SerializeCsv
    \/ LexCsv

SpecNum == InitNum /\ [][NextNum]_vars

(***************************************************************************)
(* Operand state machine: the serialization of an expression that is not a *)
(* W is followed by BOOLOR or BOOLAND and preceded by nothing, by another  *)
(* expression or by a stray opcode, and the script is parsed.              *)
(***************************************************************************)
BoolDepth == 2
BoolOps == {"OP_BOOLOR", "OP_BOOLAND"}
StrayOps == {"OP_CHECKSIG", "OP_IF", "OP_ENDIF", "OP_VERIFY"}

\* What stands before the operand: nothing or the script of an expression.
ExprPrefixes ==
    {<<>>} \cup {serialize(x) : x \in UNION {Sibling(ty) : ty \in Types}}
\* A lone opcode before the operand.
StrayPrefixes == {<<Op(o)>> : o \in StrayOps}

InitBool == InitFrom(AllLeaves)

\* The script `<prefix> <tree> BOOLOR` or `<prefix> <tree> BOOLAND` of a tree
\* that is not a W.
AppendBool ==
    /\ pc = "tree"
    /\ tree.ty # "W"
    /\ \E prefix \in ExprPrefixes \cup StrayPrefixes, o \in BoolOps :
          script' = prefix \o serialize(tree) \o <<Op(o)>>
    /\ pc' = "fuzzed"
    /\ UNCHANGED <<tree, parsed, reser>>
    /\ RestRT

NextBool ==
    \/ WrapBinary(BoolDepth)
    \/ WrapUnary(BoolDepth)
    \/ AppendBool
    \/ Parse

SpecBool == InitBool /\ [][NextBool]_vars

(***************************************************************************)
(* Data flow state machine: a descriptor is compiled, the tree the         *)
(* compiler returned is serialized and the script is parsed.               *)
(***************************************************************************)
\* ParseTree::serialize of the compiled tree
SerializeCompiled ==
    /\ pc = "compiled"
    /\ comp.st = "ok"
    /\ script' = ParseTree_serialize(comp.ast)
    /\ pc' = "script"
    /\ UNCHANGED <<tree, parsed, reser>>
    /\ RestRT

NextFlow ==
    \/ WrapDescBinary
    \/ WrapDescThreshold
    \/ Compile
    \/ SerializeCompiled
    \/ Parse

SpecFlow == InitCompile /\ [][NextFlow]_vars

(***************************************************************************)
(* Threshold state machine: a tree is grown, the token sequence of its     *)
(* script, Add tokens included, is handed to the parser.                   *)
(***************************************************************************)
ThreshDepth == 3

\* The token that Token::serialize turns into the instruction.
TokenOf(ins) == IF ins = Op("OP_ADD") THEN TOp("Add") ELSE LexIns(ins).tok

InitThresh == InitFrom(Leaves("E") \cup Leaves("W"))

\* The tokens of the serialized tree
Tokenize ==
    /\ pc = "tree"
    /\ tree.ty = "T"
    /\ script' = ParseTree_serialize(tree)
    /\ tokens' = [i \in 1..Len(script') |-> TokenOf(script'[i])]
    /\ pc' = "tokens"
    /\ UNCHANGED <<parsed, lexed>>
    /\ RestTok

NextThresh ==
    \/ WrapThreshold(ThreshDepth)
    \/ WrapBinary(ThreshDepth)
    \/ WrapUnary(ThreshDepth)
    \/ Tokenize
    \/ ParseTokenSeq

SpecThresh == InitThresh /\ [][NextThresh]_vars

(***************************************************************************)
(* Token state machine over damaged scripts: a tree is grown, the token    *)
(* sequence of its script is taken, one token of it is removed or replaced *)
(* by another, and the sequence is handed to the parser.                   *)
(***************************************************************************)
ParseDepth == 2
StrayTokens ==
    {TOp("Add"), TOp("Verify"), TOp("EndIf"), TOp("Swap"), TOp("BoolOr"), TOp("EqualVerify"),
     TOp("CheckSigVerify"), TOp("NotIf"), Number(0), Number(1), Tok("Pubkey", 1)}

\* tokens is the token sequence of script, untouched
Pristine == tokens = [i \in 1..Len(script) |-> TokenOf(script[i])]

\* One token is removed.
CutToken ==
    /\ pc = "tokens"
    /\ Pristine
    /\ \E i \in 1..Len(tokens) : tokens' = RemoveAt(tokens, i)
    /\ UNCHANGED <<script, parsed, lexed, pc>>
    /\ RestTok

\* One token is replaced by another.
ReplaceToken ==
    /\ pc = "tokens"
    /\ Pristine
    /\ \E i \in 1..Len(tokens), t \in StrayTokens :
          /\ tokens[i] # t
          /\ tokens' = [tokens EXCEPT ![i] = t]
    /\ UNCHANGED <<script, parsed, lexed, pc>>
    /\ RestTok

NextParse ==
    \/ WrapThreshold(ParseDepth)
    \/ WrapBinary(ParseDepth)
    \/ WrapUnary(ParseDepth)
    \/ Tokenize
    \/ CutToken
    \/ ReplaceToken
    \/ ParseTokenSeq

SpecParse == InitFrom(AllLeaves) /\ [][NextParse]_vars

(***************************************************************************)
(* Properties.                                                             *)
(***************************************************************************)
RECURSIVE Nodes(_)
Nodes(t) == {t} \cup UNION {Nodes(t.subs[i]) : i \in 1..Len(t.subs)}

Range(s) == {s[i] : i \in 1..Len(s)}

KeysOf(t) ==
    UNION {IF x.op = "CheckSig" THEN {x.n}
           ELSE IF x.op \in {"CheckMultiSig", "CheckMultiSigF"} THEN Range(x.ks)
           ELSE {} : x \in Nodes(t)}
PkhsOf(t) == {x.n : x \in {y \in Nodes(t) : y.op \in {"CheckSigHash", "CheckSigHashF"}}}
HashesOf(t) == {x.n : x \in {y \in Nodes(t) : y.op = "HashEqual"}}
CsvsOf(t) == {x.n : x \in {y \in Nodes(t) : y.op = "Csv"}}

Satisfied == pc \in {"sat", "keys"}

\* C1: every tree that is serialized and parsed comes back, Ok and equal.
C1_ParseSerialize == pc = "parsed" => (parsed.ok /\ parsed.tree = tree)

\* C2: every script that parses is reproduced exactly by serializing the
\* parsed tree, whether the serializer emitted the script or not.
C2_SerializeParse == pc \in {"reser", "reser_fuzzed"} => reser = script

\* A descriptor that holds a Threshold with an empty sub-list.
EmptyThreshold(d) == \E x \in Nodes(d) : x.op = "Threshold" /\ x.subs = <<>>

\* C3: ParseTree::compile returns a tree, without panicking, for every
\* descriptor built from Key, KeyHash, Multi, Time, Hash, Threshold, And, Or
\* and AsymmetricOr that holds no Threshold with an empty sub-list.
C3_CompileTotal ==
    (pc = "compiled" /\ ~EmptyThreshold(desc)) => (comp.st = "ok" /\ comp.ast.ty = "T")

\* A tree is accepted by parse when the script that stands for it parses to it.
Accepted(t) ==
    LET r == ParseTree_parse(ParseTree_serialize(t)) IN r.ok /\ r.tree = t

AllIngredients(t, m) ==
    /\ \A h \in PkhsOf(t) : HasPk(m, h)
    /\ \A pk \in KeysOf(t) \cup {m.pkhs[h] : h \in PkhsOf(t)} : HasSig(m, pk)
    /\ \A h \in HashesOf(t) : h \in m.hashes
    /\ \A n \in CsvsOf(t) : m.age >= n

\* C4: satisfaction completeness: a tree accepted by parse, satisfied with a
\* signature for every key, a key for every key hash, a preimage for every
\* hash and an age that meets every Csv, yields a witness.
C4_Complete == (Satisfied /\ Accepted(tree) /\ AllIngredients(tree, env)) => sat.ok

\* The errors that name an ingredient of the tree the maps do not provide;
\* a missing signature may be that of the key pkhs holds for a key hash.
IngredientErrors(t, m, viaPkhs) ==
    {[e |-> "MissingSig", v |-> pk] :
        pk \in {q \in KeysOf(t) \cup (IF viaPkhs THEN {m.pkhs[h] : h \in PkhsOf(t)} ELSE {}) :
                   q # 0 /\ ~HasSig(m, q)}}
    \cup {[e |-> "MissingHash", v |-> h] : h \in {g \in HashesOf(t) : g \notin m.hashes}}
    \cup {[e |-> "MissingPubkey", v |-> h] : h \in {g \in PkhsOf(t) : ~HasPk(m, g)}}
    \cup {[e |-> "LocktimeNotMet", v |-> n] : n \in {c \in CsvsOf(t) : m.age < c}}

\* A multisig node with fewer than k signed keys, or a Threshold node with
\* fewer than k children that satisfy.
UnderQuorum(t, m) ==
    \E x \in Nodes(t) :
        \/ /\ x.op \in {"CheckMultiSig", "CheckMultiSigF"}
           /\ Cardinality({i \in 1..Len(x.ks) : HasSig(m, x.ks[i])}) < x.n
        \/ /\ x.op = "Threshold"
           /\ Cardinality({i \in 1..Len(x.subs) : satisfy(x.subs[i], m).ok}) < x.n

\* C5 as written: an error of satisfy is MissingSig, MissingHash,
\* MissingPubkey or LocktimeNotMet of a key, hash or Csv value that occurs in
\* the tree and that the maps do not provide.
C5_Original == (Satisfied /\ ~sat.ok) => sat.err \in IngredientErrors(tree, env, FALSE)

\* C5, amended: an error of satisfy names an ingredient the maps do not
\* provide (the key of a MissingSig may be the one pkhs holds for a key hash
\* of the tree), or it is CouldNotSatisfy, returned when a multisig or a
\* Threshold of the tree is short of its quorum.
C5_ErrorNames ==
    (Satisfied /\ ~sat.ok) =>
        \/ sat.err \in IngredientErrors(tree, env, TRUE)
        \/ sat.err = [e |-> "CouldNotSatisfy", v |-> 0] /\ UnderQuorum(tree, env)

C5_Witness == pc = "sat" /\ ~sat.ok /\ sat.err.e = "CouldNotSatisfy"

\* The signatures of a witness that are not followed by the push of their
\* own public key: a CheckSigHash node emits [sig, pk], a CheckSig or
\* CheckMultiSig node emits bare signatures.
BareSigKeys(w) ==
    {w[i].v : i \in {j \in 1..Len(w) :
                       /\ w[j].k = "sig"
                       /\ ~(j < Len(w) /\ w[j + 1] = PkPush(w[j].v))}}
AllSigKeys(w) == {w[i].v : i \in {j \in 1..Len(w) : w[j].k = "sig"}}

ThresholdAsClaimed(x, m) ==
    LET n == Len(x.subs)
        rs == [i \in 1..n |-> satisfy(x.subs[i], m)]
        ds == [i \in 1..n |-> dissatisfy(x.subs[i], m)]
        oks == {i \in 1..n : rs[i].ok}
        Before(j, i) ==
            \/ satisfy_cost(rs[j].wit) < satisfy_cost(rs[i].wit)
            \/ satisfy_cost(rs[j].wit) = satisfy_cost(rs[i].wit) /\ j < i
        chosen == {i \in oks : Cardinality({j \in oks : Before(j, i)}) < x.n}
        res == satisfy(x, m)
    IN  IF Cardinality(oks) < x.n THEN ~res.ok
        ELSE (\A i \in (1..n) \ chosen : ds[i].ok) =>
                res = Ok(Flatten([i \in 1..n |-> IF i \in chosen THEN rs[i].wit ELSE ds[i].wit]))

\* C7: every Threshold node of a satisfied tree is satisfied as claimed.
C7_Threshold ==
    Satisfied => \A x \in Nodes(tree) : x.op = "Threshold" => ThresholdAsClaimed(x, env)

\* The positions of the key list whose key has a signature.
Available(ks, m) == {i \in 1..Len(ks) : HasSig(m, ks[i])}

\* The signatures of the positions sel, in key order.
RECURSIVE SigsOf(_, _, _)
SigsOf(ks, sel, m) ==
    IF ks = <<>> THEN <<>>
    ELSE SigsOf(Front(ks), sel, m)
            \o (IF Len(ks) \in sel THEN <<SigPush(Last(ks), m.keys[Last(ks)])>> ELSE <<>>)

TotalLen(w) == SumSeq([i \in 1..Len(w) |-> w[i].len])

\* C8: satisfy_checkmultisig(k, keys): with fewer than k signed keys
\* CouldNotSatisfy; otherwise k signatures, a subsequence in key order of
\* the available ones, then one empty push; no dropped signature is
\* shorter than a kept one and no k available signatures are shorter in
\* total.
C8_CheckMultiSig ==
    pc = "sat" =>
        LET x == tree.subs[1]
            k == x.n
            avail == Available(x.ks, env)
        IN  IF Cardinality(avail) < k
            THEN sat = Err("CouldNotSatisfy", 0)
            ELSE /\ sat.ok
                 /\ Len(sat.wit) = k + 1
                 /\ sat.wit[k + 1] = EmptyPush
                 /\ \E sel \in SUBSET avail :
                       /\ Cardinality(sel) = k
                       /\ SubSeq(sat.wit, 1, k) = SigsOf(x.ks, sel, env)
                       /\ \A i \in sel, j \in avail \ sel :
                             env.keys[x.ks[i]] <= env.keys[x.ks[j]]
                 /\ \A other \in SUBSET avail :
                       Cardinality(other) = k =>
                           TotalLen(sat.wit) <= TotalLen(SigsOf(x.ks, other, env))

\* A longer signature was dropped for a shorter one met later.
C8_Witness ==
    /\ pc = "sat"
    /\ sat.ok
    /\ tree.subs[1].n = 2
    /\ Cardinality(Available(tree.subs[1].ks, env)) = 3
    /\ \E i \in 1..2 : env.keys[tree.subs[1].ks[i]] > env.keys[tree.subs[1].ks[3]]

IsParallelOr(x) == x.op = "ParallelOr"

\* C9 as written, for a ParallelOr node x: one child satisfied gives its
\* satisfaction joined, left part first, with the other's dissatisfaction;
\* both satisfied gives the cheaper join, the left one on a tie; none gives
\* the left error.
ParallelOrAsClaimed(x, m) ==
    LET l == satisfy(x.subs[1], m)
        r == satisfy(x.subs[2], m)
        ld == dissatisfy(x.subs[1], m)
        rd == dissatisfy(x.subs[2], m)
        res == satisfy(x, m)
    IN  CASE l.ok /\ ~r.ok -> res = Ok(l.wit \o rd.wit)
          [] ~l.ok /\ r.ok -> res = Ok(ld.wit \o r.wit)
          [] l.ok /\ r.ok ->
                res = IF satisfy_cost(l.wit) + satisfy_cost(rd.wit)
                            <= satisfy_cost(ld.wit) + satisfy_cost(r.wit)
                      THEN Ok(l.wit \o rd.wit)
                      ELSE Ok(ld.wit \o r.wit)
          [] OTHER -> res = l

FirstFailed(ds) == IF ~ds[1].ok THEN ds[1] ELSE ds[2]

IsSwitchOr(x) == x.op \in {"SwitchOr", "SwitchOrV", "SwitchOrT"}

\* C10: a SwitchOr node yields the chosen branch's satisfaction followed by
\* the selector, [1] for left and [] for right, and nothing of the other
\* branch; with both satisfied left is chosen exactly when
\* cost(lsat) + 2 <= cost(rsat) + 1 and the result is no costlier than the
\* other choice; with none satisfied the left error.
C10_SwitchOr ==
    Satisfied =>
        \A x \in Nodes(tree) :
            IsSwitchOr(x) =>
                LET l == satisfy(x.subs[1], env)
                    r == satisfy(x.subs[2], env)
                    res == satisfy(x, env)
                    lw == l.wit \o <<OnePush>>
                    rw == r.wit \o <<EmptyPush>>
                IN  CASE l.ok /\ ~r.ok -> res = Ok(lw)
                      [] ~l.ok /\ r.ok -> res = Ok(rw)
                      [] l.ok /\ r.ok ->
                            /\ res = IF satisfy_cost(l.wit) + 2 <= satisfy_cost(r.wit) + 1
                                     THEN Ok(lw) ELSE Ok(rw)
                            /\ satisfy_cost(res.wit) <= satisfy_cost(lw)
                            /\ satisfy_cost(res.wit) <= satisfy_cost(rw)
                      [] OTHER -> res = l

\* Both branches of the root SwitchOr satisfy at equal total cost and the
\* left one is emitted.
C10_Witness ==
    /\ pc = "sat"
    /\ \E x \in Nodes(tree) :
          /\ IsSwitchOr(x)
          /\ satisfy(x.subs[1], env).ok
          /\ satisfy(x.subs[2], env).ok
          /\ satisfy_cost(satisfy(x.subs[1], env).wit) + 2
                = satisfy_cost(satisfy(x.subs[2], env).wit) + 1
          /\ sat = Ok(satisfy(x.subs[1], env).wit \o <<OnePush>>)

IsCascadeOr(x) == x.op \in {"CascadeOr", "CascadeOrV"}

\* What C11 asks of a CascadeOr node x.
CascadeOrAsClaimed(x, m) ==
    LET l == satisfy(x.subs[1], m)
        r == satisfy(x.subs[2], m)
        ld == dissatisfy(x.subs[1], m)
        res == satisfy(x, m)
    IN  CASE l.ok /\ ~r.ok -> res = Ok(l.wit)
          [] ~l.ok /\ r.ok -> res = Ok(ld.wit \o r.wit)
          [] l.ok /\ r.ok ->
                res = IF satisfy_cost(l.wit) <= satisfy_cost(r.wit) + satisfy_cost(ld.wit)
                      THEN Ok(l.wit)
                      ELSE Ok(ld.wit \o r.wit)
          [] OTHER -> res = l

\* C11: a CascadeOr node with only the left child satisfied yields the left
\* satisfaction; with only the right one, the left dissatisfaction followed
\* by the right satisfaction; with both, the left satisfaction when
\* cost(lsat) <= cost(rsat) + cost(ldissat) and ldissat followed by rsat
\* otherwise; with none, the left error.
C11_CascadeOr ==
    Satisfied => \A x \in Nodes(tree) : IsCascadeOr(x) => CascadeOrAsClaimed(x, env)

\* C11 where the left child can be dissatisfied: the claim as written.
C11_Dissatisfiable ==
    Satisfied =>
        \A x \in Nodes(tree) :
            (IsCascadeOr(x) /\ dissatisfy(x.subs[1], env).ok) => CascadeOrAsClaimed(x, env)

\* Both children of a CascadeOr satisfy, the left one cannot be
\* dissatisfied, and satisfy returns an error.
C11_LeftLost ==
    /\ pc = "sat"
    /\ tree.op = "CastE"
    /\ IsCascadeOr(tree.subs[1])
    /\ satisfy(tree.subs[1].subs[1], env).ok
    /\ satisfy(tree.subs[1].subs[2], env).ok
    /\ ~dissatisfy(tree.subs[1].subs[1], env).ok
    /\ ~sat.ok

IsAnd(x) == x.op \in {"ParallelAnd", "CascadeAnd", "And"}

\* C12: a conjunction node (E::ParallelAnd, E::CascadeAnd, F::And, V::And,
\* T::And) yields the left child's satisfaction followed by the right
\* child's; when a child fails the node fails with that child's error, the
\* left child's when both fail.
C12_And ==
    Satisfied =>
        \A x \in Nodes(tree) :
            IsAnd(x) =>
                LET l == satisfy(x.subs[1], env)
                    r == satisfy(x.subs[2], env)
                    res == satisfy(x, env)
                IN  CASE l.ok /\ r.ok -> res = Ok(l.wit \o r.wit)
                      [] ~l.ok -> res = l /\ ~res.ok
                      [] OTHER -> res = r /\ ~res.ok

\* A V::And below the root with two different signatures, left one first.
C12_Witness ==
    /\ pc = "sat"
    /\ sat.ok
    /\ \E x \in Nodes(tree) :
          /\ x.ty = "V"
          /\ IsAnd(x)
          /\ satisfy(x, env).ok
          /\ satisfy(x.subs[1], env).wit # satisfy(x.subs[2], env).wit
          /\ satisfy(x.subs[1], env).wit # <<>>
          /\ satisfy(x.subs[2], env).wit # <<>>

\* T(CastF(SwitchOrV(CheckSig(K1), And(CheckSig(K2), CheckSig(K3)))))
C13_Tree == Unary("T", "CastF", SwitchOrVOfAnd)

OnlySigned(m, ks) == \A k \in Keys : HasSig(m, k) <=> k \in ks

\* C13, first half: with a signature for K1 only the witness of C13_Tree is
\* [sig(K1), [1]].
C13_LeftBranch ==
    (pc = "sat" /\ tree = C13_Tree /\ OnlySigned(env, {1})) =>
        sat = Ok(<<SigPush(1, env.keys[1]), OnePush>>)

\* C13: with a signature for K1 only the witness of C13_Tree is
\* [sig(K1), [1]]; with signatures for K2 and K3 only it is
\* [sig(K3), sig(K2), []].
C13_Scenario ==
    (pc = "sat" /\ tree = C13_Tree) =>
        /\ OnlySigned(env, {1}) => sat = Ok(<<SigPush(1, env.keys[1]), OnePush>>)
        /\ OnlySigned(env, {2, 3}) =>
              sat = Ok(<<SigPush(3, env.keys[3]), SigPush(2, env.keys[2]), EmptyPush>>)

\* What satisfy returns for C13_Tree with K2 and K3 signed: the signature
\* of K2 below that of K3.
C13_RightBranch ==
    /\ pc = "sat"
    /\ tree = C13_Tree
    /\ OnlySigned(env, {2, 3})
    /\ sat = Ok(<<SigPush(2, env.keys[2]), SigPush(3, env.keys[3]), EmptyPush>>)

\* The E variant a W variant wraps or stands for.
ECounterpart(w) == IF w.op = "CastE" THEN w.subs[1] ELSE Leaf("E", w.op, w.n)

\* C14: the dissatisfaction of a W node is that of its E counterpart: one
\* empty push for W::CheckSig and W::HashEqual, the dissatisfaction of e for
\* W::CastE(e); W::Csv dissatisfies with an empty witness.
C14_WDissatisfy ==
    Satisfied =>
        \A x \in Nodes(tree) :
            x.ty = "W" =>
                IF x.op = "Csv" THEN dissatisfy(x, env) = Ok(<<>>)
                ELSE /\ dissatisfy(x, env) = dissatisfy(ECounterpart(x), env)
                     /\ x.op \in {"CheckSig", "HashEqual"} =>
                            dissatisfy(x, env) = Ok(<<EmptyPush>>)

\* C14 for W::CastE and W::Csv alone.
C14_CastECsv ==
    Satisfied =>
        \A x \in Nodes(tree) :
            /\ (x.ty = "W" /\ x.op = "Csv") => dissatisfy(x, env) = Ok(<<>>)
            /\ (x.ty = "W" /\ x.op = "CastE") =>
                    dissatisfy(x, env) = dissatisfy(x.subs[1], env)

\* C15: the pk_cost of the Cost that X::from_descriptor(d, p) returns is the
\* byte length of the serialized script of its ast.
C15_PkCost ==
    (pc = "cost" /\ comp.st = "ok") => comp.pk_cost = ScriptLen(serialize(comp.ast))

RuleOps == {"KeyHash", "Multi", "And", "Or", "AsymmetricOr"}

\* The candidates from_descriptor enumerates for a node of RuleOps at type
\* E, F or T; a KeyHash or Multi has one candidate at F, and at T the two of
\* E taken over as T.
Candidates(ty, d, p, b) ==
    CASE ty = "E" -> E_rules(d, p, b)
      [] ty = "F" ->
            IF d.op \in {"KeyHash", "Multi"} THEN <<from_descriptor("F", d, p, b)>>
            ELSE F_rules(d, p, b)
      [] ty = "T" ->
            IF d.op \in {"KeyHash", "Multi"}
            THEN [i \in 1..2 |-> AsT("CastE", E_rules(d, p, b)[i])]
            ELSE T_options(d, p, b)

\* The probabilities a compilation hands down to a node of type ty: any at
\* E, any at an Or or AsymmetricOr of type F (from the E::CastF alternative
\* of E), and 1 otherwise.
Propagated(ty, op, p) ==
    \/ ty = "E"
    \/ ty = "F" /\ op \in {"Or", "AsymmetricOr"}
    \/ IsOne(p)

SameCost(c1, c2) ==
    /\ c1.ast = c2.ast
    /\ c1.pk_cost = c2.pk_cost
    /\ c1.sat_cost = c2.sat_cost
    /\ c1.dissat_cost = c2.dissat_cost

\* A node of RuleOps compiled at E, F or T, to a Cost.
RuleCompiled ==
    /\ pc = "cost"
    /\ comp.st = "ok"
    /\ comp.ty \in {"E", "F", "T"}
    /\ desc.op \in RuleOps

\* C16: the Cost returned for an And, Or, AsymmetricOr, KeyHash or Multi at
\* type E, F or T with a propagated probability p is one of the candidates
\* enumerated for the node, and its weight pk_cost + p * sat_cost +
\* (1 - p) * dissat_cost is at most that of every candidate.
C16_Optimal ==
    (RuleCompiled /\ Propagated(comp.ty, desc.op, comp.p)) =>
        LET cands == Candidates(comp.ty, desc, comp.p, comp.build) IN
        /\ \E i \in 1..Len(cands) : SameCost(cands[i], comp)
        /\ \A i \in 1..Len(cands) : Weight(comp, comp.p) <= Weight(cands[i], comp.p)

\* C16 with any probability at any type.
C16_AnyProbability ==
    RuleCompiled =>
        LET cands == Candidates(comp.ty, desc, comp.p, comp.build) IN
        \A i \in 1..Len(cands) : Weight(comp, comp.p) <= Weight(cands[i], comp.p)

\* The first candidate was passed over for a strictly lighter one.
C16_Witness ==
    /\ RuleCompiled
    /\ Propagated(comp.ty, desc.op, comp.p)
    /\ LET cands == Candidates(comp.ty, desc, comp.p, comp.build) IN
       /\ Len(cands) >= 2
       /\ Weight(comp, comp.p) < Weight(cands[1], comp.p)

\* The first, in the order they are listed, of the lightest candidates.
FirstLightest(cands, p) ==
    cands[CHOOSE i \in 1..Len(cands) :
              /\ \A j \in 1..Len(cands) : Weight(cands[i], p) <= Weight(cands[j], p)
              /\ \A j \in 1..(i - 1) : Weight(cands[i], p) < Weight(cands[j], p)]

\* C17: of candidates of equal weight the compiler returns the one listed
\* first, which keeps the left child of the descriptor on the left:
\* And(Key a, Key b) gives E::ParallelAnd(CheckSig(a), CheckSig(b)) at type E
\* and F::And(CheckSig(a), CheckSig(b)) at type F.
C17_TiesLeftFirst ==
    (RuleCompiled /\ Propagated(comp.ty, desc.op, comp.p)) =>
        /\ SameCost(comp, FirstLightest(Candidates(comp.ty, desc, comp.p, comp.build), comp.p))
        /\ \A a, b \in Keys :
              desc = DBinary("And", DKey(a), DKey(b)) =>
                  /\ comp.ty = "E" =>
                        comp.ast = Binary("E", "ParallelAnd", Leaf("E", "CheckSig", a),
                                          Leaf("W", "CheckSig", b))
                  /\ comp.ty = "F" =>
                        comp.ast = Binary("F", "And", Leaf("V", "CheckSig", a),
                                          Leaf("F", "CheckSig", b))

\* C17 at type T, where the candidates are compared by min_by_key.
C17_TiesAtT ==
    (RuleCompiled /\ comp.ty = "T" /\ IsOne(comp.p)) =>
        SameCost(comp, FirstLightest(Candidates("T", desc, comp.p, comp.build), comp.p))

\* And(Key 1, Key 2) compiled at type E with the right key on the left.
C17_Swapped ==
    /\ pc = "cost"
    /\ comp.ty = "E"
    /\ desc = DBinary("And", DKey(1), DKey(2))
    /\ comp.ast = Binary("E", "ParallelAnd", Leaf("E", "CheckSig", 2), Leaf("W", "CheckSig", 1))

\* Every Threshold(k, e, ws) node of x has 1 <= k <= 1 + len(ws).
RECURSIVE ThresholdsBounded(_)
ThresholdsBounded(x) ==
    /\ x.op = "Threshold" => (1 <= x.n /\ x.n <= Len(x.subs))
    /\ \A i \in 1..Len(x.subs) : ThresholdsBounded(x.subs[i])

\* C18: every Threshold(k, e, ws) node of an AST returned by compile or by
\* parse has 1 <= k <= 1 + len(ws); a descriptor or script with another k is
\* rejected.
C18_ThresholdBounds ==
    /\ (pc = "compiled" /\ comp.st = "ok") => ThresholdsBounded(comp.ast)
    /\ (pc \in {"parsed", "parsed_fuzzed"} /\ parsed.ok) => ThresholdsBounded(parsed.tree)

\* A descriptor Threshold(0, [one key]) compiled into an AST.
C18_CompiledZero ==
    /\ pc = "compiled"
    /\ comp.st = "ok"
    /\ desc = DThreshold(0, <<DKey(1)>>)
    /\ comp.ast = Unary("T", "CastE", Thresh("E", 0, Leaf("E", "CheckSig", 1), <<>>))

\* A script whose threshold asks for 2 of 1 sub-expression, parsed into an AST.
C18_ParsedAbove ==
    /\ pc = "parsed"
    /\ parsed.ok
    /\ parsed.tree = Unary("T", "CastE", Thresh("E", 2, Leaf("E", "CheckSig", 1), <<>>))

IsMulti(x) == x.op \in {"CheckMultiSig", "CheckMultiSigF"}

\* The keys of the 33-byte pushes of a script, first pushed first.
PushedKeys(scr) ==
    LET ps == SelectSeq(scr, LAMBDA i : i.k = "push" /\ Len(i.data) = 33) IN
    [j \in 1..Len(ps) |-> PkFromSlice(ps[j].data)]

\* The multisig nodes of a tree whose only keys are those of one multisig.
SoleMulti(t) ==
    LET ms == {x \in Nodes(t) : IsMulti(x)} IN
    IF Cardinality(ms) = 1 /\ \A x \in Nodes(t) : x.op # "CheckSig" THEN ms ELSE {}

\* The keys of the multisig of a parsed tree, when the script held no other key.
ParsedKeys ==
    IF pc \in {"parsed", "parsed_fuzzed"} /\ parsed.ok
    THEN {x.ks : x \in SoleMulti(parsed.tree)}
    ELSE {}

\* C19 (amended): the serializer of a CheckMultiSig(k, [pk1..pkn]) node of
\* any variant pushes the keys in their stored order, pk1 first and pkn last;
\* the parser, which reads the script from its end, meets them last first
\* and reverses them, so the stored order of the parsed node is the order of
\* the pushes in the script.
C19_StoredOrder ==
    /\ pc # "tree" =>
          \A x \in Nodes(tree) : IsMulti(x) => PushedKeys(serialize(x)) = x.ks
    /\ \A ks \in ParsedKeys : ks = PushedKeys(script)

\* C19 as stated: the serializer pushes the keys in the reverse of their
\* stored order, pkn first and pk1 last, and the parser restores pk1..pkn.
C19_Original ==
    /\ pc # "tree" =>
          \A x \in Nodes(tree) : IsMulti(x) => PushedKeys(serialize(x)) = Reverse(x.ks)
    /\ \A ks \in ParsedKeys : ks = Reverse(PushedKeys(script))

\* A multisig of two different keys serialized and parsed back.
C19_Witness ==
    /\ pc = "parsed"
    /\ tree = Unary("T", "CastE", Multi("E", "CheckMultiSig", 1, <<1, 2>>))
    /\ parsed.ok
    /\ parsed.tree = tree
    /\ PushedKeys(script) = <<1, 2>>

\* A byte string is the shortest encoding of the number it decodes to: its
\* last byte is not a bare sign byte, unless the byte before it needs one.
ShortestEncoding(bytes) ==
    bytes # <<>> =>
        \/ Last(bytes) % 128 # 0
        \/ Len(bytes) > 1 /\ bytes[Len(bytes) - 1] >= 128

\* A data push that is not a hash or a key, decodes to a number and is not
\* the way that number must be written: the number is negative, or has a
\* shorter encoding, or is one of 1..16, which have an opcode of their own.
NonMinimalPush(ins) ==
    /\ ins.k = "push"
    /\ Len(ins.data) \notin {20, 32, 33}
    /\ read_scriptint(ins.data).ok
    /\ \/ read_scriptint(ins.data).v < 0
       \/ ~ShortestEncoding(ins.data)
       \/ read_scriptint(ins.data).v \in 0..16 /\ ins.data # <<>>

\* C20: a script with a data push (not of 20, 32 or 33 bytes) that decodes
\* to a negative number, or to a non-negative number of which it is not the
\* minimal encoding, is rejected by lex with InvalidPush, and so parse
\* fails on it; a one-byte push of a value 0..16 is such a push.
C20_InvalidPush ==
    (pc = "parsed_fuzzed" /\ \E i \in 1..Len(script) : NonMinimalPush(script[i])) =>
        /\ ~lex(script).ok
        /\ lex(script).err = "InvalidPush"
        /\ ~parsed.ok
        /\ parsed.err = "InvalidPush"

\* A one-byte push of 16, of 0, and a number with a needless zero byte, each
\* refused by parse with InvalidPush.
C20_Witness ==
    /\ pc = "parsed_fuzzed"
    /\ \E i \in 1..Len(script) : script[i] \in {Push(<<16>>), Push(<<0>>), Push(<<17, 0>>)}
    /\ parsed.err = "InvalidPush"

\* A push of five bytes is refused by read_scriptint, not as an InvalidPush.
C20_FiveBytes ==
    (pc = "parsed_fuzzed" /\ \E i \in 1..Len(script) : Len(script[i].data) = 5) =>
        (~parsed.ok /\ parsed.err = "Script")

\* C21: lex maps the opcode of every operator token of the token table,
\* OP_ADD included, to that token, so that the serialization of a single
\* token lexes to that token, and it returns InvalidOpcode exactly for the
\* opcodes outside the table.
C21_LexTable ==
    /\ pc = "lexed" => lexed = [ok |-> TRUE, toks |-> tokens, err |-> ""]
    /\ pc = "lexed_op" => (~lexed.ok /\ lexed.err = "InvalidOpcode")

\* The serialization of the single token Add is refused by lex.
C21_AddRefused ==
    /\ pc = "lexed"
    /\ tokens = <<TOp("Add")>>
    /\ script = <<Op("OP_ADD")>>
    /\ ~lexed.ok
    /\ lexed.err = "InvalidOpcode"

\* C21 for every token but Add.
C21_TableButAdd ==
    /\ (pc = "lexed" /\ \A i \in 1..Len(tokens) : tokens[i] # TOp("Add")) =>
          lexed = [ok |-> TRUE, toks |-> tokens, err |-> ""]
    /\ (pc = "lexed_op" /\ \A i \in 1..Len(tokens) : tokens[i] # TOp("Add")) =>
          (~lexed.ok /\ lexed.err = "InvalidOpcode")

\* C22: the push the serializer emits for an integer n of the AST, for any
\* u32 n and so for n >= 2^31 too, is OP_0..OP_16 for n <= 16 and a minimal
\* script integer otherwise, and lex accepts it and returns Number(n).
C22_NumberRoundTrip ==
    pc = "lexed_num" =>
        /\ lexed.ok
        /\ Len(lexed.toks) = 2
        /\ lexed.toks[1].t = "Number"
        /\ WideOf(lexed.toks[1].v) = tree.n
        /\ (tree.n.hi = 0 /\ tree.n.lo <= 16) <=>
                (script[1] = Push(<<>>) \/ script[1].name = "OP_PUSHNUM")

\* F::Csv(2^31) is serialized with a push of five bytes, which lex refuses.
C22_FiveBytes ==
    /\ pc = "lexed_num"
    /\ tree = WideCsv(32768, 0)
    /\ script[1] = Push(<<0, 0, 0, 128, 0>>)
    /\ ~lexed.ok
    /\ lexed.err = "Script"

\* C22 for the integers below 2^31.
C22_Below31 ==
    (pc = "lexed_num" /\ tree.n.hi < 32768) =>
        /\ lexed.ok
        /\ lexed.toks[1] = Number(tree.n.hi * 65536 + tree.n.lo)
        /\ script[1] = push_int(tree.n.hi * 65536 + tree.n.lo)

OrOps == {"ParallelOr", "CascadeOr", "CascadeOrV", "SwitchOr", "SwitchOrV", "SwitchOrT"}
NoOr(t) == \A x \in Nodes(t) : x.op \notin OrOps
LaterAges == {9, 10, 17, 20}

\* satisfy succeeds with every later age and the same keys, pkhs and hashes.
StillSatisfied ==
    \A a \in LaterAges :
        a >= env.age => ParseTree_satisfy(tree, [env EXCEPT !.age = a]).ok

\* C23: when satisfy succeeds on a tree without Or or Switch node at some
\* age, it succeeds at every greater age with the same keys, pkhs and
\* hashes.
C23_CsvMonotone == (pc = "sat" /\ sat.ok /\ NoOr(tree)) => StillSatisfied

\* A tree with a Csv below a conjunction or a threshold, satisfied at age 10.
C23_Witness ==
    /\ pc = "sat"
    /\ sat.ok
    /\ NoOr(tree)
    /\ env.age = 10
    /\ \E x \in Nodes(tree) : x.op = "Csv" /\ x.n = 9
    /\ \E x \in Nodes(tree) : x.op \in {"And", "ParallelAnd", "CascadeAnd", "Threshold"}

\* The number of keys stored in the CheckSig and CheckMultiSig(F) nodes of t.
RECURSIVE StoredKeyCount(_)
StoredKeyCount(t) ==
    (IF t.op = "CheckSig" THEN 1 ELSE IF IsMulti(t) THEN Len(t.ks) ELSE 0)
        + SumSeq([i \in 1..Len(t.subs) |-> StoredKeyCount(t.subs[i])])

C24_KeyHashSkipped ==
    /\ pc = "keys"
    /\ PkhsOf(tree) # {}
    /\ Len(rkeys) = 2
    /\ rkeys[1] # rkeys[2]

\* What the script holds before the operand of its final BOOLOR or BOOLAND.
BoolPrefix == SubSeq(script, 1, Len(script) - Len(serialize(tree)) - 1)

\* C25 as stated: a script whose operand before BOOLOR or BOOLAND is not a
\* W is refused by parse with an Unexpected error.
C25_Original ==
    pc = "parsed_fuzzed" => (~parsed.ok /\ parsed.err = "Unexpected")

\* C25 (amended): such a script is never parsed into a tree; the error is
\* Unexpected when the operand is preceded by nothing or by a complete
\* expression.
C25_NeverTree ==
    pc = "parsed_fuzzed" =>
        /\ ~parsed.ok
        /\ BoolPrefix \in ExprPrefixes => parsed.err = "Unexpected"

\* `<V> <E> BOOLOR` with two multisigs, refused as Unexpected.
C25_Witness ==
    /\ pc = "parsed_fuzzed"
    /\ tree = Multi("E", "CheckMultiSig", 1, <<1, 2>>)
    /\ script = serialize(Leaf("V", "CheckSig", 2)) \o serialize(tree) \o <<Op("OP_BOOLOR")>>
    /\ ~parsed.ok
    /\ parsed.err = "Unexpected"

\* Leaves that the parser rebuilds as they are.
PlainOps == {"CheckSig", "CheckSigHash", "CheckMultiSig", "Csv"}
PlainLeaf(x, ty) == x.ty = ty /\ x.op \in PlainOps /\ x.subs = <<>>

\* `<V> <F>` as the body of an E::CastF or as the right side of an
\* E::CascadeAnd below the top.
FJuxtaposed(t) ==
    /\ t.ty = "T" /\ t.op = "CastE"
    /\ \/ t.subs[1].op = "CastF"
       \/ t.subs[1].op = "CascadeAnd" /\ PlainLeaf(t.subs[1].subs[1], "E")
    /\ LET f == t.subs[1].subs[Len(t.subs[1].subs)] IN
       /\ f.ty = "F" /\ f.op = "And"
       /\ PlainLeaf(f.subs[1], "V")
       /\ PlainLeaf(f.subs[2], "F")

\* `<V> <V> <T>` and `<V> <T>` at the top, the T an E::CheckSig.
VTJuxtaposed(t) ==
    /\ t.ty = "T" /\ t.op = "And"
    /\ t.subs[2] = Unary("T", "CastE", Leaf("E", "CheckSig", 2))
    /\ \/ PlainLeaf(t.subs[1], "V")
       \/ /\ t.subs[1].ty = "V" /\ t.subs[1].op = "And"
          /\ PlainLeaf(t.subs[1].subs[1], "V")
          /\ PlainLeaf(t.subs[1].subs[2], "V")

\* C26: a V-subexpression standing before an accepted F, V or T is combined
\* with it into F::And(V, F), V::And(V, V) or T::And(V, T); `<V> <F>` in the
\* body of an E::CastF or of an E::CascadeAnd is parsed as the F::And that
\* was serialized.
C26_Juxtaposition ==
    (pc = "parsed" /\ (FJuxtaposed(tree) \/ VTJuxtaposed(tree))) =>
        (parsed.ok /\ parsed.tree = tree)

\* C26 for an accepted V or T only.
C26_VAndT ==
    (pc = "parsed" /\ VTJuxtaposed(tree)) => (parsed.ok /\ parsed.tree = tree)

\* `<V> <F>` in the body of an E::CastF is refused by the parser.
C26_FRefused ==
    /\ pc = "parsed"
    /\ tree = Unary("T", "CastE", Unary("E", "CastF",
                   Binary("F", "And", Leaf("V", "CheckSig", 1), Leaf("F", "CheckSig", 2))))
    /\ ~parsed.ok
    /\ parsed.err = "Unexpected"

\* A V::And below a T::And, parsed back as it was.
C26_VAndReached ==
    /\ pc = "parsed"
    /\ VTJuxtaposed(tree)
    /\ tree.subs[1].op = "And"
    /\ parsed.ok

\* C27: the script of a tree the compiler returned is parsed back into
\* that tree.
C27_CompiledRoundTrip ==
    pc = "parsed" => (parsed.ok /\ parsed.tree = comp.ast)

\* The compilation of a Threshold of two keys, whose script holds an OP_ADD
\* and is refused by lex.
C27_ThresholdRefused ==
    /\ pc = "parsed"
    /\ desc = DThreshold(1, <<DKey(1), DKey(2)>>)
    /\ ~parsed.ok
    /\ parsed.err = "InvalidOpcode"

\* The compilation of an And, T::CastF(F::And(V, F)), is parsed into the
\* other tree with the same script, T::And(V, T::CastF(F)).
C27_AndRegrouped ==
    /\ pc = "parsed"
    /\ desc = DBinary("And", DKey(1), DTime(9))
    /\ comp.ast.op = "CastF"
    /\ comp.ast.subs[1].op = "And"
    /\ parsed.ok
    /\ parsed.tree = Binary("T", "And", comp.ast.subs[1].subs[1],
                            Unary("T", "CastF", comp.ast.subs[1].subs[2]))

\* C28: a CascadeOr node of any variant whose left child satisfies is
\* satisfied, whatever the right child does and whether or not the left
\* child can be dissatisfied.
C28_LeftKept ==
    Satisfied =>
        \A x \in Nodes(tree) :
            (IsCascadeOr(x) /\ satisfy(x.subs[1], env).ok) => satisfy(x, env).ok

\* C28 where the right child fails or the left child can be dissatisfied.
C28_LeftKeptElsewhere ==
    Satisfied =>
        \A x \in Nodes(tree) :
            (/\ IsCascadeOr(x)
             /\ satisfy(x.subs[1], env).ok
             /\ ~satisfy(x.subs[2], env).ok \/ dissatisfy(x.subs[1], env).ok) =>
                satisfy(x, env).ok

\* The whole tree fails with MissingPubkey, the error of the dissatisfaction
\* of a left child that satisfy could satisfy.
C28_LostToMissingPubkey ==
    /\ pc = "sat"
    /\ tree.op = "CastE"
    /\ tree.subs[1].op = "CascadeOr"
    /\ satisfy(tree.subs[1].subs[1], env).ok
    /\ ~sat.ok
    /\ sat.err.e = "MissingPubkey"

\* A tree whose only node above the leaves, casts aside, is a Threshold of
\* any variant over CheckSig and Csv leaves.
ThresholdOverLeaves(x) ==
    /\ x.op = "Threshold"
    /\ \A i \in 1..Len(x.subs) : x.subs[i].subs = <<>> /\ x.subs[i].op \in {"CheckSig", "Csv"}
ThresholdTree(t) ==
    \/ t.op \in {"CastE", "CastF"} /\ ThresholdOverLeaves(t.subs[1])
    \/ /\ t.op = "And"
       /\ t.subs[1].ty = "V"
       /\ ThresholdOverLeaves(t.subs[1])
       /\ t.subs[2] = Unary("T", "CastE", Leaf("E", "CheckSig", 2))

\* C29: the tokens `<e> <w1> ADD ... <wn> ADD <k> EQUAL`, or the same with
\* EQUALVERIFY, are parsed into Threshold(k, e, [w1, ..., wn]), the W
\* children in the order of the script, for every n >= 0.
C29_ThresholdOrder ==
    (pc = "tokparsed" /\ ThresholdTree(tree)) => (parsed.ok /\ parsed.tree = tree)

\* Two W children of an E::Threshold come back in the opposite order.
C29_Reversed ==
    /\ pc = "tokparsed"
    /\ tree.op = "CastE"
    /\ ThresholdOverLeaves(tree.subs[1])
    /\ Len(tree.subs[1].subs) = 3
    /\ parsed.ok
    /\ parsed.tree.subs[1].subs =
          <<tree.subs[1].subs[1], tree.subs[1].subs[3], tree.subs[1].subs[2]>>
    /\ parsed.tree # tree

\* C29 for an E::Threshold with at most one W child.
C29_UpToOne ==
    (/\ pc = "tokparsed"
     /\ tree.op = "CastE"
     /\ ThresholdOverLeaves(tree.subs[1])
     /\ Len(tree.subs[1].subs) <= 2) => (parsed.ok /\ parsed.tree = tree)

\* A V::Threshold with a W child is refused at its Add token.
C29_VerifyRefused ==
    /\ pc = "tokparsed"
    /\ tree.op = "And"
    /\ ThresholdTree(tree)
    /\ Len(tree.subs[1].subs) = 2
    /\ ~parsed.ok
    /\ parsed.err = "Unexpected"

(***************************************************************************)
(* C30.  The reverse parser terminates on every finite token sequence and  *)
(* returns Ok or an Error value without a panic: every call of             *)
(* parse_subexpression that returns Ok has removed at least one token and  *)
(* leaves a prefix of what it was given, every conversion that is          *)
(* unwrapped after an is_e .. is_t test returns Ok, the And combination    *)
(* never takes its unreachable!() branch, and what it builds has children  *)
(* of the types its variants declare.                                      *)
(***************************************************************************)
AstTypes == {"E", "W", "F", "V", "T"}
ParseErrors == {"Unexpected", "UnexpectedStart"}

\* Every call of parse_subexpression is made on a prefix of the sequence.
Prefixes == {SubSeq(tokens, 1, j) : j \in 0..Len(tokens)}
IsPrefix(r, p) == Len(r) <= Len(p) /\ r = SubSeq(p, 1, Len(r))

UnwrapsSucceed(x) == \A ty \in AstTypes : is_fn(x, ty) => into_ok(x, ty)

AndCombines(x) ==
    (is_t(x) \/ is_f(x) \/ is_v(x)) =>
        (AndBranch(x) # "unreachable" /\ into_ok(x, AndBranch(x)))

RECURSIVE WellTyped(_)
WellTyped(t) ==
    /\ \A i \in 1..Len(t.subs) : WellTyped(t.subs[i])
    /\ CASE t.op = "Threshold" ->
                /\ t.ty \in ThresholdTypes
                /\ Len(t.subs) >= 1
                /\ t.subs[1].ty = "E"
                /\ \A i \in 2..Len(t.subs) : t.subs[i].ty = "W"
          [] t.op # "Threshold" /\ Len(t.subs) = 2 ->
                \E c \in BinaryCtors :
                    c.ty = t.ty /\ c.op = t.op /\ c.l = t.subs[1].ty /\ c.r = t.subs[2].ty
          [] t.op # "Threshold" /\ Len(t.subs) = 1 ->
                \E c \in UnaryCtors : c.ty = t.ty /\ c.op = t.op /\ c.l = t.subs[1].ty
          [] OTHER -> t.ty \in AstTypes

Progresses(r, p) ==
    IF r.ok
    THEN /\ Len(r.rest) < Len(p)
         /\ IsPrefix(r.rest, p)
         /\ UnwrapsSucceed(r.node)
         /\ AndCombines(r.node)
         /\ WellTyped(r.node)
    ELSE r.err \in ParseErrors

C30_ParserTotal ==
    /\ \A p \in Prefixes :
          Progresses(ParseArm(p), p) /\ Progresses(parse_subexpression(p), p)
    /\ pc = "tokparsed" =>
          /\ parsed = ParseTokens(tokens)
          /\ IF parsed.ok
             THEN parsed.tree.ty = "T" /\ WellTyped(parsed.tree)
             ELSE parsed.err \in ParseErrors

\* A damaged sequence is refused although a recursive call on one of its
\* prefixes, of four tokens or more, returned a combined expression.
C30_Witness ==
    /\ pc = "tokparsed"
    /\ ~Pristine
    /\ ~parsed.ok
    /\ \E p \in Prefixes :
          /\ Len(p) >= 4
          /\ parse_subexpression(p).ok
          /\ parse_subexpression(p).node.op \in {"And", "Threshold", "ParallelOr"}

\* A damaged sequence can still be a script: it is accepted as another tree.
C30_DamagedAccepted ==
    /\ pc = "tokparsed"
    /\ ~Pristine
    /\ parsed.ok
    /\ parsed.tree # tree

====
